---- MODULE Spec2Model ----
(***************************************************************************)
(* Active Directory domain-membership state machine (start / stop jobs     *)
(* under the AD_start_stop job lock) and its health monitor (the           *)
(* WBStatusThread listener owned by ADMonitorService), as implemented in   *)
(* middlewared/plugins/activedirectory.py.                                 *)
(***************************************************************************)
EXTENDS Integers, Sequences, FiniteSets, TLC

\* ---------------------------------------------------------------- bounds
MaxCalls == 2      \* start/stop requests submitted in one behaviour
MaxMsgs == 2       \* notifications winbindd writes in one behaviour
MaxThreads == 2    \* WBStatusThread objects that exist at the same time
MaxRecords == 3    \* SRV records in one DNS answer
MaxNumber == 2     \* `number` of servers asked of get_n_working_servers
MaxCallers == 2    \* direct admonitor calls in progress at the same time

Jobs == 1..2
Threads == 1..MaxThreads
Callers == 1..MaxCallers

\* ------------------------------------------------------- status encoding
\* DSStatus members and their values (the monitor remembers and receives
\* values, the state store keeps names).
DSNames == {"DISABLED", "FAULTED", "LEAVING", "JOINING", "HEALTHY"}
DSStatusValue ==
    [DISABLED |-> 1, FAULTED |-> 1028, LEAVING |-> 1029, JOINING |-> 1030,
     HEALTHY |-> 1027]
DSValues == {DSStatusValue[n] : n \in DSNames}
InvalidCode == 7

\* DSStatus(value): the member with that value; "ValueError" when none.
DSStatus(v) ==
    IF v \in DSValues THEN CHOOSE n \in DSNames : DSStatusValue[n] = v
    ELSE "ValueError"

\* ------------------------------------------------------------- messages
ADDomain == "EXAMPLE"
OtherDomain == "TRUSTED"
DefaultWorkgroup == "WORKGROUP"

Line(kind, has_msg, code, has_dom, dom, has_forest) ==
    [kind |-> kind, has_msg |-> has_msg, code |-> code,
     has_dom |-> has_dom, dom |-> dom, has_forest |-> has_forest]

\* str(DSStatus.LEAVING.value), written by cancel()
Sentinel == Line("sentinel", FALSE, DSStatusValue.LEAVING, FALSE, "", FALSE)
Notification(code, dom) == Line("object", TRUE, code, TRUE, dom, TRUE)
NotJSON == Line("notjson", FALSE, 0, FALSE, "", FALSE)
NonObject == Line("nonobject", FALSE, 0, FALSE, "", FALSE)
NoWinbindMessage == Line("object", FALSE, 0, TRUE, ADDomain, TRUE)
BadCode == Line("object", TRUE, InvalidCode, TRUE, ADDomain, TRUE)
NoDomain == Line("object", TRUE, DSStatusValue.HEALTHY, FALSE, "", TRUE)
NoForest == Line("object", TRUE, DSStatusValue.HEALTHY, TRUE, ADDomain, FALSE)

Healthy == Notification(DSStatusValue.HEALTHY, ADDomain)
Faulted == Notification(DSStatusValue.FAULTED, ADDomain)
Joining == Notification(DSStatusValue.JOINING, ADDomain)
Disabled == Notification(DSStatusValue.DISABLED, ADDomain)
Foreign == Notification(DSStatusValue.HEALTHY, OtherDomain)

ValidLines == {Healthy, Faulted, Joining, Disabled, Foreign}
MalformedLines == {NotJSON, NonObject, NoWinbindMessage, BadCode, NoDomain, NoForest}
WinbindLines == ValidLines \cup MalformedLines

\* ------------------------------------------------------------------ state
VARIABLES
    status,          \* DS_STATE['activedirectory'] (directoryservices state store)
    config,          \* persisted activedirectory configuration
    workgroup,       \* smb.config()['workgroup']
    ha_mode,         \* smb.get_smb_ha_mode()
    failover,        \* failover.status()
    op, pc, result,  \* per job: method, position, outcome
    progress,        \* per job: the percentages given to job.set_progress
    ad, smb, ret,    \* per job: locals `ad`, `smb['workgroup']`, `ret` of start()
    netads,          \* per job: local `netads`, the finished `net ads` command
    spn_job,         \* per job: local `spn_job`, the state of the add_nfs_spn job
    queue,           \* jobs submitted and not yet started
    lpc, lresult,    \* the leave() call: position, outcome
    lnetads,         \* the leave() call: netads.returncode of `net ads leave`
    hop, hpc,        \* the helper call in flight: method, position
    hresult, hcalls, \* its outcome; helper calls made so far
    tgt,             \* a valid ticket is in the credential cache
    net,             \* kerberos calls made by validate_credentials so far
    clock, drift,    \* local time (s); reference server's time minus local time
    nas_time,        \* check_clockskew: local `nas_time`
    ntp_time,        \* check_clockskew: local `ntp_time`
    number,          \* get_n_working_servers: parameter `number`
    servers,         \* get_n_working_servers: local `servers`
    idx,             \* get_n_working_servers: position of the for loop
    found_servers,   \* get_n_working_servers: local `found_servers`
    probed,          \* port_is_listening calls made in this call
    reachable,       \* the hosts that accept a connection during this call
    calls,           \* requests submitted so far
    thread,          \* ADMonitorService.thread (0 = None)
    initialized,     \* ADMonitorService.initialized
    lock,            \* ADMonitorService.lock: the caller holding it (0 = free)
    mop, mpc,        \* per direct admonitor call: method, position
    mthread,         \* per direct admonitor call: local `thread`
    netbios,         \* the NetBIOS name and aliases (smb / network configuration)
    upc, uresult,    \* the do_update call: position, outcome
    data,            \* the do_update call: parameter `data`
    old, new,        \* the do_update call: locals `old`, `new`
    before,          \* what was stored when do_update was called
    job,             \* the do_update call: local `job`, the method submitted
    idmap,           \* the do_update call: it restarted the idmap service
    sys_pool,        \* system dataset: the stored sys_pool ('' = boot pool)
    mounted,         \* per pool: where its .system dataset is mounted
    datasets,        \* the pools that hold a .system dataset
    services,        \* the services migrate() stops: running or stopped
    dpc, dresult,    \* the systemdataset.update job: position, outcome
    dconfig, dnew,   \* its locals config['pool'] and new['pool']
    system_ready,    \* what system.ready answers during the job
    cp,              \* migrate(): returncode of rsync (-1 = not run)
    pool_exclude,    \* the systemdataset.update job: data.get('pool_exclude')
    locked,          \* the pools with a locked or passphrase-encrypted root
    kpc, kresult,    \* the started() call: position, outcome
    kconfig,         \* the started() call: local `config`
    tpc,             \* per WBStatusThread: position
    state,           \* per WBStatusThread: self.state
    finished,        \* per WBStatusThread: self.finished
    batch,           \* per WBStatusThread: lines of `data` not yet parsed
    seen,            \* per WBStatusThread: what it was fed so far
    acts,            \* per WBStatusThread: alert calls made so far
    fifo,            \* lines written to .wb_fifo and not yet read
    sent,            \* notifications winbindd has written so far
    alerts           \* ActiveDirectoryDomainOffline alerts currently raised

locals == <<ad, smb, ret, netads, spn_job>>
jobvars == <<op, pc, result, progress, locals, queue, calls>>
threadvars == <<tpc, state, finished, batch, seen, acts>>
monvars == <<thread, initialized, threadvars, fifo, sent, alerts>>
leavevars == <<lpc, lresult, lnetads>>
admvars == <<lock, mop, mpc, mthread>>
updvars == <<netbios, upc, uresult, data, old, new, before, job, idmap>>
sysvars == <<sys_pool, mounted, datasets, services, dpc, dresult, dconfig,
             dnew, system_ready, cp, pool_exclude, locked>>
healthvars == <<kpc, kresult, kconfig>>
\* what neither a start/stop job nor the listener touches
krbvars == <<tgt, net>>
skewvars == <<clock, drift, nas_time, ntp_time>>
dnsvars == <<number, servers, idx, found_servers, probed, reachable>>
helpervars == <<hop, hpc, hresult, hcalls, krbvars, skewvars, dnsvars>>
envvars == <<ha_mode, failover, leavevars, helpervars, admvars, updvars,
             sysvars, healthvars>>
vars == <<status, config, workgroup, envvars, jobvars, monvars>>

HAModes == {<<"STANDALONE", "SINGLE">>, <<"LEGACY", "MASTER">>,
            <<"UNIFIED", "BACKUP">>, <<"CLUSTERED", "SINGLE">>}

\* (string fields are kept as "set" / "empty")
NoConfig == [enable |-> FALSE, bindpw |-> FALSE, domainname |-> FALSE,
             site |-> FALSE, kerberos_principal |-> FALSE,
             kerberos_realm |-> FALSE]

\* no do_update call has been made
NoData == [enable |-> FALSE, bindpw |-> FALSE, domainname |-> FALSE,
           site |-> FALSE, kerberos_principal |-> FALSE,
           kerberos_realm |-> FALSE, netbiosname |-> "", netbiosalias |-> ""]
NoPayload == [enable |-> FALSE, bindpw |-> FALSE, domainname |-> FALSE,
              kerberos_principal |-> FALSE, kerberos_realm |-> FALSE,
              netbiosname |-> "", netbiosalias |-> ""]
NoSnapshot == [config |-> NoConfig, status |-> "", netbiosname |-> "",
               netbiosalias |-> "", queue |-> <<>>]

\* no `net ads` command has returned
NoRun == [returncode |-> 0, stdout |-> <<>>, stderr |-> {}]

NoResult == [kind |-> "none", pdc |-> "", clockskew |-> 0]

\* no helper call has been made
HelperIdle ==
    /\ hop = "none" /\ hpc = "idle" /\ hresult = NoResult /\ hcalls = 0
    /\ net = <<>>
    /\ clock = 0 /\ nas_time = 0 /\ ntp_time = 0
    /\ number = 1 /\ servers = <<>> /\ idx = 1
    /\ found_servers = <<>> /\ probed = <<>> /\ reachable = {}

\* the pools of the system, the boot pool first
BootPool == "boot-pool"
\* pool.query: the data pools, in the order it lists them
DataPools == <<"tank", "dozer">>
Pools == {BootPool} \cup {DataPools[i] : i \in DOMAIN DataPools}

\* config_extend: an empty system dataset pool is the boot pool
config_extend(p) == IF p = "" THEN BootPool ELSE p

\* the system dataset lives on the pool stored as p, mounted at
\* /var/db/system
OnPool(p, l) ==
    /\ locked = l
    /\ sys_pool = p
    /\ mounted = [sys |-> config_extend(p), tmp |-> "none"]
    /\ datasets = {config_extend(p)}

\* no job, no call, no listener
NothingRunning ==
    /\ op = [j \in Jobs |-> "none"]
    /\ pc = [j \in Jobs |-> "idle"]
    /\ result = [j \in Jobs |-> "none"]
    /\ progress = [j \in Jobs |-> <<>>]
    /\ ad = [j \in Jobs |-> NoConfig]
    /\ smb = [j \in Jobs |-> ""]
    /\ ret = [j \in Jobs |-> "none"]
    /\ netads = [j \in Jobs |-> NoRun]
    /\ spn_job = [j \in Jobs |-> "none"]
    /\ queue = <<>>
    /\ calls = 0
    /\ lpc = "idle"
    /\ lresult = "none"
    /\ lnetads = 0
    /\ thread = 0
    /\ initialized = FALSE
    /\ lock = 0
    /\ mop = [c \in Callers |-> "none"]
    /\ mpc = [c \in Callers |-> "idle"]
    /\ mthread = [c \in Callers |-> 0]
    /\ netbios = [netbiosname |-> "NAS", netbiosalias |-> ""]
    /\ upc = "idle" /\ job = "none" /\ idmap = FALSE
    /\ uresult = "none"
    /\ data = NoPayload
    /\ old = NoData
    /\ new = NoData
    /\ before = NoSnapshot
    /\ pool_exclude = "none"
    /\ kpc = "idle" /\ kresult = "none" /\ kconfig = NoConfig
    /\ dpc = "idle"
    /\ dresult = "none"
    /\ dconfig = ""
    /\ dnew = ""
    /\ system_ready = TRUE
    /\ cp = -1
    /\ services = "running"
    /\ tpc = [t \in Threads |-> "unborn"]
    /\ state = [t \in Threads |-> DSStatusValue.FAULTED]
    /\ finished = [t \in Threads |-> FALSE]
    /\ batch = [t \in Threads |-> <<>>]
    /\ seen = [t \in Threads |-> <<>>]
    /\ acts = [t \in Threads |-> <<>>]
    /\ fifo = <<>>
    /\ sent = 0
    /\ alerts = {}

\* the service state before any call: disabled, with or without a bind
\* password stored
ServiceInit ==
    /\ status = "DISABLED"
    /\ \E bindpw \in BOOLEAN :
         config = [enable |-> FALSE, bindpw |-> bindpw, domainname |-> TRUE,
                   site |-> TRUE, kerberos_principal |-> FALSE,
                   kerberos_realm |-> FALSE]
    /\ workgroup = DefaultWorkgroup
    /\ \E h \in HAModes : ha_mode = h[1] /\ failover = h[2]
    /\ NothingRunning
    /\ OnPool("", {})

Init ==
    /\ ServiceInit
    /\ HelperIdle
    /\ tgt = FALSE
    /\ drift = 0

\* ActiveDirectoryService.set_state: the store is overwritten with the
\* member's name, whoever calls and whatever it held.
set_state(s) == status' = s

\* ------------------------------------------------------------- job lock
\* @job(lock=...) of start and of stop
StartLock == "AD_start_stop"
\* (a stop job given a lock name of its own)
StopLock_Own == "AD_stop"
StopLock == "AD_start_stop"
LockOf(o) == IF o = "start" THEN StartLock ELSE StopLock

Running(j) == pc[j] \notin {"idle", "done"}

\* the job's locals after the step (`netads` lives only inside
\* _net_ads_testjoin and _net_ads_join)
Locals(j, a, w, r) ==
    /\ ad' = [ad EXCEPT ![j] = a]
    /\ smb' = [smb EXCEPT ![j] = w]
    /\ ret' = [ret EXCEPT ![j] = r]
    /\ netads' = [netads EXCEPT ![j] = NoRun]

\* run([net ...], check=False) returns inside _net_ads_testjoin / _net_ads_join
Ran(j, l, rc, out, err) ==
    /\ pc' = [pc EXCEPT ![j] = l]
    /\ netads' = [netads EXCEPT ![j] =
                    [returncode |-> rc, stdout |-> out, stderr |-> err]]
    /\ UNCHANGED <<result, ad, smb, ret, spn_job>>

\* the job returns or raises: its frame is gone
Finish(j, r) ==
    /\ pc' = [pc EXCEPT ![j] = "done"]
    /\ result' = [result EXCEPT ![j] = r]
    /\ Locals(j, NoConfig, "", "none")
    /\ spn_job' = [spn_job EXCEPT ![j] = "none"]

\* the job goes on to position l with locals a, w, r
Step(j, l, a, w, r) ==
    /\ pc' = [pc EXCEPT ![j] = l]
    /\ UNCHANGED result
    /\ Locals(j, a, w, r)
    /\ UNCHANGED spn_job

Goto(j, l) == Step(j, l, ad[j], smb[j], ret[j])

\* A caller (do_update, boot, an operator retry, the peer controller)
\* submits activedirectory.start or activedirectory.stop: the job is queued.
Submit(o) ==
    /\ calls < MaxCalls
    /\ calls' = calls + 1
    /\ queue' = Append(queue, o)
    /\ UNCHANGED <<status, config, workgroup, envvars, op, pc, result,
                   progress, locals, monvars>>

\* The job queue runs the next job, in the first free slot of its table,
\* once no running job holds a lock of the same name.
JobAcquire(j) ==
    /\ queue # <<>>
    /\ ~Running(j)
    /\ \A k \in Jobs : k < j => Running(k)
    /\ \A k \in Jobs : Running(k) => LockOf(op[k]) # LockOf(Head(queue))
    /\ queue' = Tail(queue)
    /\ op' = [op EXCEPT ![j] = Head(queue)]
    /\ pc' = [pc EXCEPT ![j] = IF Head(queue) = "start" THEN "s_entry" ELSE "p_entry"]
    /\ result' = [result EXCEPT ![j] = "none"]
    /\ progress' = [progress EXCEPT ![j] = <<>>]
    /\ UNCHANGED <<status, config, workgroup, envvars, locals, calls,
                   monvars>>

\* ------------------------------------------------------- ADMonitorService
Alive(t) == tpc[t] \in {"loop", "open", "parse", "decode", "write", "alert"}
FreeSlots == {t \in Threads : ~Alive(t)}

\* WBStatusThread.__init__ + setup() + start()
NewThread(t) ==
    /\ tpc' = [tpc EXCEPT ![t] = "loop"]
    /\ state' = [state EXCEPT ![t] = DSStatusValue.FAULTED]
    /\ finished' = [finished EXCEPT ![t] = FALSE]
    /\ batch' = [batch EXCEPT ![t] = <<>>]
    /\ seen' = [seen EXCEPT ![t] = <<>>]
    /\ acts' = [acts EXCEPT ![t] = <<>>]

\* ADMonitorService.start
admonitor_start ==
    IF ~config.enable \/ initialized
    THEN UNCHANGED <<thread, initialized, threadvars>>
    ELSE /\ FreeSlots # {}
         /\ LET t == CHOOSE x \in FreeSlots : \A y \in FreeSlots : x <= y
            IN /\ NewThread(t)
               /\ thread' = t
         /\ initialized' = TRUE

\* the listeners inside `with open(.wb_fifo) as f`: blocked in open() or
\* read(), or parsing what they read
FifoReaders == {t \in Threads : tpc[t] \in {"open", "parse", "decode", "write", "alert"}}

\* WBStatusThread.cancel: self.finished.set()
cancel_set(t) == finished' = [finished EXCEPT ![t] = TRUE]

\* WBStatusThread.cancel: open(.wb_fifo, 'w') returns once a reader has the
\* fifo open (or is blocked opening it); then the sentinel is written.
cancel_write ==
    /\ FifoReaders # {}
    /\ fifo' = Append(fifo, Sentinel)

\* ADMonitorService.stop, up to the blocking open of cancel()
admonitor_stop_cancel(j) ==
    IF thread = 0
    THEN /\ Goto(j, "p_kerberos")
         /\ UNCHANGED finished
    ELSE /\ cancel_set(thread)
         /\ Goto(j, "p_cancel")

\* ADMonitorService.stop, from the blocking open of cancel() on
admonitor_stop_clear ==
    /\ cancel_write
    /\ thread' = 0
    /\ initialized' = FALSE

\* ---- ADMonitorService.start / stop / restart called directly, each call
\* on a thread of its own, step by step
MonitorCalls == {"start", "stop", "restart"}

admframe == <<status, config, workgroup, ha_mode, failover, leavevars,
              helpervars, updvars, sysvars, healthvars, op, pc, result,
              progress, locals, queue, sent,
              alerts>>

\* the call returns; restart() goes on from stop() to start()
StopReturns(c) == IF mop[c] = "restart" THEN "a_enable" ELSE "done"

admonitor_call(c, o) ==
    /\ mpc[c] \in {"idle", "done"}
    /\ calls < MaxCalls
    /\ calls' = calls + 1
    /\ mop' = [mop EXCEPT ![c] = o]
    /\ mpc' = [mpc EXCEPT ![c] = IF o = "start" THEN "a_enable" ELSE "o_read"]
    /\ mthread' = [mthread EXCEPT ![c] = 0]
    /\ UNCHANGED <<admframe, lock, thread, initialized, threadvars, fifo>>

\* start(): if not activedirectory.config()['enable']: return
admonitor_start_enable(c) ==
    /\ mpc[c] = "a_enable"
    /\ mpc' = [mpc EXCEPT ![c] = IF config.enable THEN "a_lock" ELSE "done"]
    /\ UNCHANGED <<admframe, calls, lock, mop, mthread, thread, initialized,
                   threadvars, fifo>>

\* start(): with self.lock: if self.initialized: return
admonitor_start_lock(c) ==
    /\ mpc[c] = "a_lock"
    /\ lock = 0
    /\ IF initialized
       THEN /\ mpc' = [mpc EXCEPT ![c] = "done"]
            /\ UNCHANGED lock
       ELSE /\ mpc' = [mpc EXCEPT ![c] = "a_thread"]
            /\ lock' = c
    /\ UNCHANGED <<admframe, calls, mop, mthread, thread, initialized,
                   threadvars, fifo>>

\* start(): thread = WBStatusThread(...); thread.setup();
\* self.thread = thread; thread.start()
admonitor_start_thread(c) ==
    /\ mpc[c] = "a_thread"
    /\ FreeSlots # {}
    /\ LET t == CHOOSE x \in FreeSlots : \A y \in FreeSlots : x <= y
       IN /\ NewThread(t)
          /\ thread' = t
          /\ mthread' = [mthread EXCEPT ![c] = t]
    /\ mpc' = [mpc EXCEPT ![c] = "a_initialized"]
    /\ UNCHANGED <<admframe, calls, lock, mop, initialized, fifo>>

\* start(): self.initialized = True, and the lock is released
admonitor_start_initialized(c) ==
    /\ mpc[c] = "a_initialized"
    /\ initialized' = TRUE
    /\ lock' = 0
    /\ mpc' = [mpc EXCEPT ![c] = "done"]
    /\ UNCHANGED <<admframe, calls, mop, mthread, thread, threadvars, fifo>>

\* stop(): thread = self.thread; if thread is None: return; then
\* thread.cancel() sets the flag
admonitor_stop_read(c) ==
    /\ mpc[c] = "o_read"
    /\ mthread' = [mthread EXCEPT ![c] = thread]
    /\ IF thread = 0
       THEN /\ mpc' = [mpc EXCEPT ![c] = StopReturns(c)]
            /\ UNCHANGED finished
       ELSE /\ cancel_set(thread)
            /\ mpc' = [mpc EXCEPT ![c] = "o_write"]
    /\ UNCHANGED <<admframe, calls, lock, mop, thread, initialized, tpc, state,
                   batch, seen, acts, fifo>>

\* stop(): thread.cancel() opens the fifo and writes the sentinel
admonitor_stop_write(c) ==
    /\ mpc[c] = "o_write"
    /\ cancel_write
    /\ mpc' = [mpc EXCEPT ![c] = "o_none"]
    /\ UNCHANGED <<admframe, calls, lock, mop, mthread, thread, initialized,
                   threadvars>>

\* stop(): self.thread = None
admonitor_stop_none(c) ==
    /\ mpc[c] = "o_none"
    /\ thread' = 0
    /\ mpc' = [mpc EXCEPT ![c] = "o_lock"]
    /\ UNCHANGED <<admframe, calls, lock, mop, mthread, initialized,
                   threadvars, fifo>>

\* stop(): with self.lock: self.initialized = False
admonitor_stop_lock(c) ==
    /\ mpc[c] = "o_lock"
    /\ lock = 0
    /\ initialized' = FALSE
    /\ mpc' = [mpc EXCEPT ![c] = StopReturns(c)]
    /\ UNCHANGED <<admframe, calls, lock, mop, mthread, thread, threadvars,
                   fifo>>

\* ------------------------------------------------- ActiveDirectoryService
\* neterr.to_status: the failure text is the set of markers it contains.
errors_to_rejoin ==
    {"0xfffffff6", "The name provided is not a properly formed account name",
     "The attempted logon is invalid."}
ErrTexts == {{"0xfffffff6"}, {"The attempted logon is invalid."},
             {"The name provided is not a properly formed account name", "other"},
             {"other"}, {}}
\* (a classification that wants the text to be exactly one marker)
to_status_WholeText(errstr) ==
    IF \E err \in errors_to_rejoin : errstr = {err} THEN "NOTJOINED" ELSE "FAULT"
to_status(errstr) ==
    IF \E err \in errors_to_rejoin : err \in errstr THEN "NOTJOINED" ELSE "FAULT"

\* _net_ads_testjoin: what it returns for the finished command
testjoin_status(n) ==
    IF n.returncode # 0 THEN to_status(n.stderr) ELSE "JOINED"

\* (a start() that joins whenever the domain is not in a fault)
NeedsJoin_UnlessFault(r) == r # "FAULT"
\* start(): if ret == neterr.NOTJOINED
NeedsJoin(r) == r = "NOTJOINED"

\* stdout of `net ads join`: its parts between colons, each the set of
\* phrases it contains
JoinTexts == {<<{"Failed to join domain"}>>,
              <<{"Failed to join domain"}, {"Invalid configuration"}>>,
              <<{"Failed to join domain"}, {"other"}>>,
              <<{"Failed to join domain"}, {"other"}, {"Invalid configuration"}>>}
\* netads.stdout.decode().split(':', 1)
Split1(out) ==
    IF Len(out) < 2 THEN out
    ELSE <<out[1], UNION {out[i] : i \in 2..Len(out)}>>
\* (a parser that raises only for the errors it knows)
parse_join_err_KnownOnly(msg) ==
    IF Len(msg) < 2 THEN "error"
    ELSE IF "Invalid configuration" \in msg[2] THEN "EINVAL"
    ELSE "none"
\* _parse_join_err: the CallError it raises
parse_join_err(msg) ==
    IF Len(msg) < 2 THEN "error"
    ELSE IF "Invalid configuration" \in msg[2] THEN "EINVAL"
    ELSE "error"

\* (a check that forgets LEAVING)
BusyStates_JoiningOnly == {"JOINING"}
\* the states in which start() refuses to run
BusyStates == {"JOINING", "LEAVING"}

jobframe == <<op, queue, calls, envvars>>

\* job.set_progress: the percentages start() and stop() report at each
\* position, in the order they report them
ReportsAt(l) ==
    CASE l = "s_joining" -> <<0>>
      [] l = "s_realm" -> <<5>>
      [] l = "s_site" -> <<20>>
      [] l = "s_netbios" -> <<30>>
      [] l = "s_testjoin" -> <<40>>
      [] l = "s_join" -> <<50>>
      [] l = "s_spn" -> <<60>>
      [] l = "s_keytab" -> <<70>>
      [] l = "s_idmap" -> <<80>>
      [] l = "s_restart" -> <<90>>
      [] l = "s_dscache" ->
           IF ha_mode = "LEGACY" /\ failover = "MASTER" THEN <<95>> ELSE <<>>
      [] l = "s_cluster" -> <<100>>
      [] l = "p_entry" -> <<0>>
      [] l = "p_leaving" -> <<5>>
      [] l = "p_kerberos" -> <<10>>
      [] l = "p_smb" -> <<20, 40>>
      [] l = "p_disabled" -> <<60>>
      [] l = "p_cache" ->
           IF (ha_mode = "LEGACY" /\ failover = "MASTER") \/ ha_mode = "CLUSTERED"
           THEN <<70>> ELSE <<>>
      [] l = "p_final" -> <<100>>
      [] OTHER -> <<>>

\* (a job that makes every report of the position before it raises)
RaisedAfter_All(l) == {Len(ReportsAt(l))}
\* how many of them are reported before an awaited call of the position
\* raises
RaisedAfter(l) ==
    CASE l \in {"s_site", "s_netbios", "s_testjoin", "s_join", "s_keytab",
                "s_idmap", "s_restart", "p_entry"} -> {1}
      [] l \in {"s_realm", "p_kerberos"} -> {0, 1}
      [] l = "p_smb" -> {1, 2}
      [] l = "p_cache" -> IF ha_mode = "CLUSTERED" THEN {0, 1} ELSE {0}
      [] OTHER -> {0}

Report(j, percents) == progress' = [progress EXCEPT ![j] = @ \o percents]

\* start(): cluster check, config reads, the UNIFIED standby return
start_entry(j) ==
    /\ pc[j] = "s_entry"
    /\ Report(j, ReportsAt(pc[j]))
    /\ IF ha_mode = "UNIFIED" /\ failover # "MASTER"
       THEN Finish(j, "returned")
       ELSE Step(j, "s_check", config, workgroup, ret[j])
    /\ UNCHANGED <<status, config, workgroup, jobframe, monvars>>

\* start(): get_state and the EBUSY check
start_check(j) ==
    /\ pc[j] = "s_check"
    /\ Report(j, ReportsAt(pc[j]))
    /\ IF status \in BusyStates
       THEN Finish(j, "EBUSY")
       ELSE Goto(j, "s_joining")
    /\ UNCHANGED <<status, config, workgroup, jobframe, monvars>>

start_joining(j) ==
    /\ pc[j] = "s_joining"
    /\ Report(j, ReportsAt(pc[j]))
    /\ set_state("JOINING")
    /\ Goto(j, "s_enable")
    /\ UNCHANGED <<config, workgroup, jobframe, monvars>>

\* start(): super().do_update({'enable': True})
start_enable(j) ==
    /\ pc[j] = "s_enable"
    /\ Report(j, ReportsAt(pc[j]))
    /\ config' = [config EXCEPT !.enable = TRUE]
    /\ Goto(j, "s_realm")
    /\ UNCHANGED <<status, workgroup, jobframe, monvars>>

\* start(): synchronize, etc.generate, then the kerberos realm
start_realm(j) ==
    /\ pc[j] = "s_realm"
    /\ Report(j, ReportsAt(pc[j]))
    /\ IF ~ad[j].kerberos_realm
       THEN /\ config' = [config EXCEPT !.kerberos_realm = TRUE]
            /\ Step(j, "s_ticket", config', smb[j], ret[j])
       ELSE /\ UNCHANGED config
            /\ Goto(j, "s_ticket")
    /\ UNCHANGED <<status, workgroup, jobframe, monvars>>

\* start(): kerberos._klist_test / kerberos.start
start_ticket(j) ==
    /\ pc[j] = "s_ticket"
    /\ Report(j, ReportsAt(pc[j]))
    /\ Goto(j, "s_site")
    /\ UNCHANGED <<status, config, workgroup, jobframe, monvars>>

\* start(): get_site / set_kerberos_servers
start_site(j) ==
    /\ pc[j] = "s_site"
    /\ Report(j, ReportsAt(pc[j]))
    /\ Goto(j, "s_netbios")
    /\ UNCHANGED <<status, config, workgroup, jobframe, monvars>>

\* start(): get_netbios_domain_name updates the SMB workgroup
start_netbios(j) ==
    /\ pc[j] = "s_netbios"
    /\ Report(j, ReportsAt(pc[j]))
    /\ IF smb[j] = DefaultWorkgroup /\ ADDomain # smb[j]
       THEN workgroup' = ADDomain
       ELSE UNCHANGED workgroup
    /\ Goto(j, "s_testjoin")
    /\ UNCHANGED <<status, config, jobframe, monvars>>

\* _net_ads_testjoin: check_ticket, then `net ads testjoin` returns
start_testjoin(j) ==
    /\ pc[j] = "s_testjoin"
    /\ Report(j, ReportsAt(pc[j]))
    /\ \E rc \in {0, 1}, errout \in ErrTexts :
         Ran(j, "s_classify", rc, <<>>, IF rc = 0 THEN {} ELSE errout)
    /\ UNCHANGED <<status, config, workgroup, jobframe, monvars>>

\* start(): ret = _net_ads_testjoin(...) and the branch on it
start_classify(j) ==
    /\ pc[j] = "s_classify"
    /\ Report(j, ReportsAt(pc[j]))
    /\ LET r == testjoin_status(netads[j])
       IN Step(j, IF NeedsJoin(r) THEN "s_join" ELSE "s_restart",
               ad[j], smb[j], r)
    /\ UNCHANGED <<status, config, workgroup, jobframe, monvars>>

\* _net_ads_join: check_ticket, then `net ads join` returns
start_join(j) ==
    /\ pc[j] = "s_join"
    /\ Report(j, ReportsAt(pc[j]))
    /\ \E rc \in {0, 1}, stdout \in JoinTexts :
         Ran(j, "s_joined", rc, IF rc = 0 THEN <<>> ELSE stdout, {})
    /\ UNCHANGED <<status, config, workgroup, jobframe, monvars>>

\* _net_ads_join: a non-zero return code sets FAULTED, and
\* _parse_join_err raises
start_joined(j) ==
    /\ pc[j] = "s_joined"
    /\ Report(j, ReportsAt(pc[j]))
    /\ IF netads[j].returncode # 0
       THEN /\ set_state("FAULTED")
            /\ LET e == parse_join_err(Split1(netads[j].stdout))
               IN IF e # "none"
                  THEN Finish(j, e)
                  ELSE Goto(j, IF ha_mode # "LEGACY" THEN "s_spn" ELSE "s_idmap")
       ELSE /\ Goto(j, IF ha_mode # "LEGACY" THEN "s_spn" ELSE "s_idmap")
            /\ UNCHANGED status
    /\ UNCHANGED <<config, workgroup, jobframe, monvars>>

\* add_nfs_spn(ad, False, False) as a job: it returns (True, or False when
\* kerberized NFS is off), or _net_ads_setspn / change_trust_account_pw
\* raises CallError and the job fails
add_nfs_spn == {"SUCCESS", "FAILED"}

\* start(): the add_nfs_spn job is submitted and waited for; wait() returns
\* when the job has ended, whatever its state, and start() reads neither
\* its result nor its error
start_spn(j) ==
    /\ pc[j] = "s_spn"
    /\ Report(j, ReportsAt(pc[j]))
    /\ \E ended \in add_nfs_spn : spn_job' = [spn_job EXCEPT ![j] = ended]
    /\ pc' = [pc EXCEPT ![j] = "s_keytab"]
    /\ UNCHANGED result
    /\ Locals(j, ad[j], smb[j], ret[j])
    /\ UNCHANGED <<status, config, workgroup, jobframe, monvars>>

\* (an update that stores the principal and keeps the password)
KeytabStored_KeepPassword(c) == [c EXCEPT !.kerberos_principal = TRUE]
\* start(): direct_update({'bindpw': '', 'kerberos_principal': ...})
KeytabStored(c) == [c EXCEPT !.bindpw = FALSE, !.kerberos_principal = TRUE]

\* start(): store_samba_keytab; with a keytab the bind password is cleared
start_keytab(j) ==
    /\ pc[j] = "s_keytab"
    /\ Report(j, ReportsAt(pc[j]))
    /\ \E kt_id \in BOOLEAN :
         IF kt_id
         THEN /\ config' = KeytabStored(config)
              /\ Step(j, "s_idmap", config', smb[j], ret[j])
         ELSE /\ UNCHANGED config
              /\ Goto(j, "s_idmap")
    /\ UNCHANGED <<status, workgroup, jobframe, monvars>>

\* start(): ret = JOINED, cifs enable, set_idmap, set_ntp_servers
start_idmap(j) ==
    /\ pc[j] = "s_idmap"
    /\ Report(j, ReportsAt(pc[j]))
    /\ Step(j, "s_restart", ad[j], smb[j], "JOINED")
    /\ UNCHANGED <<status, config, workgroup, jobframe, monvars>>

\* start(): idmap.synchronize, service.restart cifs, etc.generate pam
start_restart(j) ==
    /\ pc[j] = "s_restart"
    /\ Report(j, ReportsAt(pc[j]))
    /\ Goto(j, "s_final")
    /\ UNCHANGED <<status, config, workgroup, jobframe, monvars>>

\* (a start that calls every outcome healthy)
FinalStatus_Healthy(r) == "HEALTHY"
\* start(): if ret == neterr.JOINED: HEALTHY ... else: FAULTED
FinalStatus(r) == IF r = "JOINED" THEN "HEALTHY" ELSE "FAULTED"

\* start(): the final status
start_final(j) ==
    /\ pc[j] = "s_final"
    /\ Report(j, ReportsAt(pc[j]))
    /\ set_state(FinalStatus(ret[j]))
    /\ Goto(j, IF ret[j] = "JOINED" THEN "s_monitor" ELSE "s_cluster")
    /\ UNCHANGED <<config, workgroup, jobframe, monvars>>

\* start(): admonitor.start
start_monitor(j) ==
    /\ pc[j] = "s_monitor"
    /\ Report(j, ReportsAt(pc[j]))
    /\ admonitor_start
    /\ Goto(j, "s_dscache")
    /\ UNCHANGED <<status, config, workgroup, jobframe, fifo, sent, alerts>>

\* start(): service.start dscache, the standby controller
start_dscache(j) ==
    /\ pc[j] = "s_dscache"
    /\ Report(j, ReportsAt(pc[j]))
    /\ Goto(j, "s_cluster")
    /\ UNCHANGED <<status, config, workgroup, jobframe, monvars>>

\* start(): cluster reload, progress 100, return
start_cluster(j) ==
    /\ pc[j] = "s_cluster"
    /\ Report(j, ReportsAt(pc[j]))
    /\ Finish(j, "ok")
    /\ UNCHANGED <<status, config, workgroup, jobframe, monvars>>

\* stop(): cluster check, direct_update({"enable": False})
stop_entry(j) ==
    /\ pc[j] = "p_entry"
    /\ Report(j, ReportsAt(pc[j]))
    /\ config' = [config EXCEPT !.enable = FALSE]
    /\ Goto(j, "p_leaving")
    /\ UNCHANGED <<status, workgroup, jobframe, monvars>>

stop_leaving(j) ==
    /\ pc[j] = "p_leaving"
    /\ Report(j, ReportsAt(pc[j]))
    /\ set_state("LEAVING")
    /\ Goto(j, "p_monitor")
    /\ UNCHANGED <<config, workgroup, jobframe, monvars>>

\* stop(): admonitor.stop is called
stop_monitor(j) ==
    /\ pc[j] = "p_monitor"
    /\ Report(j, ReportsAt(pc[j]))
    /\ admonitor_stop_cancel(j)
    /\ UNCHANGED <<status, config, workgroup, jobframe, thread, initialized,
                   tpc, state, batch, seen, acts, fifo, sent, alerts>>

\* stop(): admonitor.stop returns
stop_cancel(j) ==
    /\ pc[j] = "p_cancel"
    /\ Report(j, ReportsAt(pc[j]))
    /\ admonitor_stop_clear
    /\ Goto(j, "p_kerberos")
    /\ UNCHANGED <<status, config, workgroup, jobframe,
                   tpc, state, finished, batch, seen, acts, sent, alerts>>

\* stop(): etc.generate hostname, kerberos.stop
stop_kerberos(j) ==
    /\ pc[j] = "p_kerberos"
    /\ Report(j, ReportsAt(pc[j]))
    /\ Goto(j, "p_smb")
    /\ UNCHANGED <<status, config, workgroup, jobframe, monvars>>

\* stop(): synchronize, idmap.synchronize, service.restart cifs, pam
stop_smb(j) ==
    /\ pc[j] = "p_smb"
    /\ Report(j, ReportsAt(pc[j]))
    /\ Goto(j, "p_disabled")
    /\ UNCHANGED <<status, config, workgroup, jobframe, monvars>>

stop_disabled(j) ==
    /\ pc[j] = "p_disabled"
    /\ Report(j, ReportsAt(pc[j]))
    /\ set_state("DISABLED")
    /\ Goto(j, "p_cache")
    /\ UNCHANGED <<config, workgroup, jobframe, monvars>>

\* stop(): service.stop dscache, cache flush, standby controller, cluster
stop_cache(j) ==
    /\ pc[j] = "p_cache"
    /\ Report(j, ReportsAt(pc[j]))
    /\ Goto(j, "p_final")
    /\ UNCHANGED <<status, config, workgroup, jobframe, monvars>>

\* stop(): the second set_state(DISABLED), progress 100
stop_final(j) ==
    /\ pc[j] = "p_final"
    /\ Report(j, ReportsAt(pc[j]))
    /\ set_state("DISABLED")
    /\ Finish(j, "ok")
    /\ UNCHANGED <<config, workgroup, jobframe, monvars>>

\* The positions at which the awaited call can raise; nothing in start()
\* or stop() catches it, so the job ends there.
RaisePoints ==
    {"s_realm", "s_ticket", "s_site", "s_netbios", "s_testjoin",
     "s_join", "s_keytab", "s_idmap", "s_restart", "s_dscache",
     "p_kerberos", "p_smb", "p_cache"}
    \cup (IF ha_mode = "CLUSTERED" THEN {"s_entry", "p_entry", "s_cluster"} ELSE {})

Raise(j) ==
    /\ pc[j] \in RaisePoints
    /\ \E k \in RaisedAfter(pc[j]) : Report(j, SubSeq(ReportsAt(pc[j]), 1, k))
    /\ Finish(j, "error")
    /\ UNCHANGED <<status, config, workgroup, jobframe, monvars>>

\* ------------------------------------------------------------- leave()
\* what leave() leaves alone
leaveframe == <<workgroup, ha_mode, failover, helpervars, admvars, updvars,
                sysvars, healthvars,
                op, pc,
                result,
                progress, locals, queue, monvars>>

\* leave() is called (a plain method: no job, no lock); config and HA mode
\* are read
leave_entry ==
    /\ lpc \in {"idle", "done"}
    /\ calls < MaxCalls
    /\ calls' = calls + 1
    /\ lpc' = "l_kinit"
    /\ lresult' = "none"
    /\ lnetads' = 0
    /\ UNCHANGED <<status, config, leaveframe>>

\* leave(): kerberos.get_cred and kerberos.do_kinit with the given credentials
leave_kinit ==
    /\ lpc = "l_kinit"
    /\ lpc' = "l_netads"
    /\ UNCHANGED <<status, config, calls, lresult, lnetads, leaveframe>>

\* leave(): `net ads leave` returns; a failure is logged
leave_netads ==
    /\ lpc = "l_netads"
    /\ \E returncode \in {0, 1} : lnetads' = returncode
    /\ lpc' = "l_records"
    /\ UNCHANGED <<status, config, calls, lresult, leaveframe>>

\* leave(): the keytab entry and the realm are deleted, secrets.tdb is
\* moved away
leave_records ==
    /\ lpc = "l_records"
    /\ lpc' = "l_update"
    /\ UNCHANGED <<status, config, calls, lresult, lnetads, leaveframe>>

\* (a payload that forgets the realm)
LeavePayload_KeepRealm(c) ==
    [c EXCEPT !.enable = FALSE, !.site = FALSE,
              !.kerberos_principal = FALSE, !.domainname = FALSE]
\* leave(): payload of direct_update
LeavePayload(c) ==
    [c EXCEPT !.enable = FALSE, !.site = FALSE, !.kerberos_realm = FALSE,
              !.kerberos_principal = FALSE, !.domainname = FALSE]

leave_update ==
    /\ lpc = "l_update"
    /\ config' = LeavePayload(config)
    /\ lpc' = "l_disabled"
    /\ UNCHANGED <<status, calls, lresult, lnetads, leaveframe>>

leave_disabled ==
    /\ lpc = "l_disabled"
    /\ set_state("DISABLED")
    /\ lpc' = "l_cleanup"
    /\ UNCHANGED <<config, calls, lresult, lnetads, leaveframe>>

\* leave(): the standby controller, cache flush, krb5.keytab, kerberos.stop,
\* pam, synchronize, idmap.synchronize, service.restart cifs; return
leave_cleanup ==
    /\ lpc = "l_cleanup"
    /\ lpc' = "done"
    /\ lresult' = "ok"
    /\ UNCHANGED <<status, config, calls, lnetads, leaveframe>>

\* The positions of leave() at which an awaited call can raise: nothing
\* catches it.
LeaveRaisePoints == {"l_kinit", "l_records", "l_cleanup"}

LeaveRaise ==
    /\ lpc \in LeaveRaisePoints
    /\ lpc' = "done"
    /\ lresult' = "error"
    /\ UNCHANGED <<status, config, calls, lnetads, leaveframe>>

\* --------------------------------------------------------- WBStatusThread
\* m['winbind_message'] and DSStatus(...): the member's name, or the
\* exception the lookup raises
StatusOf(m) ==
    IF m.kind # "object" THEN "TypeError"
    ELSE IF ~m.has_msg THEN "KeyError"
    ELSE DSStatus(m.code)

\* (a listener that takes every domain's notifications for its own)
DomainMismatch_Never(m, wg) == FALSE
\* m['domain_name_netbios'] != smb.config()['workgroup']
DomainMismatch(m, wg) == m.dom # wg

\* (a debug line that does not read m['forest_name'])
Transition_NoForestRead(m, st) == IF st # m.code THEN "write" ELSE "same"
\* if self.state != new_state: the debug line reads m['forest_name']
\* before set_state is called
Transition(m, st) ==
    IF st # m.code
    THEN (IF m.has_forest THEN "write" ELSE "crashed")
    ELSE "same"

\* new_state = DSStatus(m['winbind_message']).value of the line being parsed
new_state(t) == Head(batch[t]).code

\* what a line fed to the listener was: `en` is the enable flag parse_msg read
Tag(m, en) ==
    IF m = Sentinel THEN "sentinel"
    ELSE IF m \in MalformedLines THEN (IF en \/ m = NotJSON THEN "malformed" ELSE "ignored")
    ELSE IF ~en THEN "ignored"
    ELSE IF m = Faulted THEN "F"
    ELSE IF m = Healthy THEN "H"
    ELSE IF m = Foreign THEN "foreign"
    ELSE "other"

Note(t, m, en) == seen' = [seen EXCEPT ![t] = Append(@, Tag(m, en))]

\* parse_msg returns: read_messages goes on with the next line of data
NextLine(t) ==
    /\ batch' = [batch EXCEPT ![t] = Tail(@)]
    /\ tpc' = [tpc EXCEPT ![t] = IF Len(batch[t]) > 1 THEN "parse" ELSE "loop"]

\* parse_msg raises: run() logs it and the thread ends
Crash(t) ==
    /\ tpc' = [tpc EXCEPT ![t] = "crashed"]
    /\ UNCHANGED batch

\* read_messages: while not self.finished.is_set()
read_messages_loop(t) ==
    /\ tpc[t] = "loop"
    /\ tpc' = [tpc EXCEPT ![t] = IF finished[t] THEN "exited" ELSE "open"]
    /\ UNCHANGED <<status, config, workgroup, envvars, jobvars, thread,
                   initialized, state, finished, batch, seen, acts,
                   fifo, sent, alerts>>

\* read_messages: open() and read() return what was written to the fifo
read_messages_read(t) ==
    /\ tpc[t] = "open"
    /\ fifo # <<>>
    /\ batch' = [batch EXCEPT ![t] = fifo]
    /\ fifo' = <<>>
    /\ tpc' = [tpc EXCEPT ![t] = "parse"]
    /\ UNCHANGED <<status, config, workgroup, envvars, jobvars, thread,
                   initialized, state, finished, seen, acts, sent, alerts>>

\* parse_msg: the sentinel, json.loads, the enable check
parse_msg_json(t) ==
    /\ tpc[t] = "parse"
    /\ LET m == Head(batch[t])
       IN IF m.kind \in {"sentinel", "notjson"}
          THEN /\ Note(t, m, FALSE)
               /\ NextLine(t)
          ELSE /\ Note(t, m, config.enable)
               /\ IF ~config.enable
                  THEN NextLine(t)
                  ELSE /\ tpc' = [tpc EXCEPT ![t] = "decode"]
                       /\ UNCHANGED batch
    /\ UNCHANGED <<status, config, workgroup, envvars, jobvars, thread,
                   initialized, state, finished, acts, fifo, sent, alerts>>

\* parse_msg: the status code, the workgroup check, the state comparison
parse_msg_decode(t) ==
    /\ tpc[t] = "decode"
    /\ LET m == Head(batch[t])
       IN IF StatusOf(m) \notin DSNames
          THEN NextLine(t)
          ELSE IF ~m.has_dom
          THEN Crash(t)
          ELSE IF DomainMismatch(m, workgroup)
          THEN NextLine(t)
          ELSE IF Transition(m, state[t]) = "same"
          THEN NextLine(t)
          ELSE /\ tpc' = [tpc EXCEPT ![t] = Transition(m, state[t])]
               /\ UNCHANGED batch
    /\ UNCHANGED <<status, config, workgroup, envvars, jobvars, thread,
                   initialized, state, finished, seen, acts, fifo, sent, alerts>>

\* parse_msg: activedirectory.set_state(DSStatus(m['winbind_message']))
parse_msg_write(t) ==
    /\ tpc[t] = "write"
    /\ set_state(DSStatus(Head(batch[t]).code))
    /\ tpc' = [tpc EXCEPT ![t] = "alert"]
    /\ UNCHANGED <<config, workgroup, envvars, jobvars, thread, initialized,
                   state, finished, batch, seen, acts, fifo, sent, alerts>>

\* parse_msg: alert.oneshot_create / oneshot_delete, self.state = new_state
parse_msg_alert(t) ==
    /\ tpc[t] = "alert"
    /\ LET m == Head(batch[t])
       IN IF new_state(t) = DSStatusValue.FAULTED
          THEN /\ alerts' = alerts \cup {m.dom}
               /\ acts' = [acts EXCEPT ![t] = Append(@, "create")]
          ELSE /\ alerts' = alerts \ {m.dom}
               /\ acts' = [acts EXCEPT ![t] = Append(@, "delete")]
    /\ state' = [state EXCEPT ![t] = new_state(t)]
    /\ NextLine(t)
    /\ UNCHANGED <<status, config, workgroup, envvars, jobvars, thread,
                   initialized, finished, seen, fifo, sent>>

\* winbindd writes a line to the fifo a listener has open
WinbindWrite(m) ==
    /\ sent < MaxMsgs
    /\ \E t \in Threads : Alive(t)
    /\ fifo' = Append(fifo, m)
    /\ sent' = sent + 1
    /\ UNCHANGED <<status, config, workgroup, envvars, jobvars, thread,
                   initialized, threadvars, alerts>>

\* ----------------------------------------------------------- helper calls
\* validate_credentials, check_clockskew and get_n_working_servers, called
\* one at a time; none of them touches the state of the service.
servicevars == <<status, config, workgroup, ha_mode, failover, leavevars,
                 admvars, updvars, sysvars, healthvars, jobvars, monvars>>

\* a helper method is called
HelperCall(o, l) ==
    /\ hpc \in {"idle", "done"}
    /\ hcalls < MaxCalls
    /\ hcalls' = hcalls + 1
    /\ hop' = o
    /\ hpc' = l
    /\ hresult' = NoResult

\* a helper method returns or raises
HelperEnds(kind, pdc, skew) ==
    /\ hpc' = "done"
    /\ hresult' = [kind |-> kind, pdc |-> pdc, clockskew |-> skew]
    /\ UNCHANGED <<hop, hcalls>>

HelperGoto(l) ==
    /\ hpc' = l
    /\ UNCHANGED <<hop, hcalls, hresult>>

\* ---- validate_credentials
\* (a validation that never trusts the ticket it finds)
ShortCircuit_Never(valid_tgt) == FALSE
\* if await self.middleware.call('kerberos._klist_test'): return
ShortCircuit(valid_tgt) == valid_tgt

validate_credentials_call ==
    /\ HelperCall("validate_credentials", "v_klist")
    /\ UNCHANGED <<servicevars, krbvars, skewvars, dnsvars>>

\* kerberos._klist_test and the short-circuit
validate_credentials_klist ==
    /\ hop = "validate_credentials" /\ hpc = "v_klist"
    /\ net' = Append(net, "_klist_test")
    /\ IF ShortCircuit(tgt)
       THEN HelperEnds("return", "", 0)
       ELSE HelperGoto("v_kinit")
    /\ UNCHANGED <<servicevars, tgt, skewvars, dnsvars>>

\* kerberos.get_cred and kerberos.do_kinit: the ticket is acquired, or the
\* credentials are rejected
validate_credentials_kinit ==
    /\ hop = "validate_credentials" /\ hpc = "v_kinit"
    /\ net' = net \o <<"get_cred", "do_kinit">>
    /\ \E accepted \in BOOLEAN :
         IF accepted
         THEN /\ tgt' = TRUE
              /\ HelperEnds("return", "", 0)
         ELSE /\ UNCHANGED tgt
              /\ HelperEnds("CallError", "", 0)
    /\ UNCHANGED <<servicevars, skewvars, dnsvars>>

\* the ticket in the credential cache expires (or is destroyed)
TicketExpires ==
    /\ tgt
    /\ tgt' = FALSE
    /\ UNCHANGED <<servicevars, hop, hpc, hresult, hcalls, net, skewvars, dnsvars>>

\* ---- check_clockskew (times in seconds)
permitted_clockskew == 180
Drifts == {-240, -182, -181, -180, -120, 0, 120, 180, 181, 240}
\* the time a lookup or an NTP exchange takes
Latencies == {0, 2}
Abs(x) == IF x < 0 THEN -x ELSE x

\* check_clockskew is called: nas_time = datetime.datetime.now()
check_clockskew_call ==
    /\ HelperCall("check_clockskew", "k_lookup")
    /\ nas_time' = clock
    /\ ntp_time' = 0
    /\ UNCHANGED <<servicevars, krbvars, clock, drift, dnsvars>>

\* activedirectory.lookup_dc: the PDC emulator, or the CallError that makes
\* check_clockskew return a skew of 0
check_clockskew_lookup ==
    /\ hop = "check_clockskew" /\ hpc = "k_lookup"
    /\ \E l \in Latencies : clock' = clock + l
    /\ \E found \in BOOLEAN :
         IF found THEN HelperGoto("k_ntp")
         ELSE HelperEnds("return", "None", 0)
    /\ UNCHANGED <<servicevars, krbvars, drift, nas_time, ntp_time, dnsvars>>

\* c.request(pdc): the server's transmit time, or no answer
check_clockskew_ntp ==
    /\ hop = "check_clockskew" /\ hpc = "k_ntp"
    /\ \E l \in Latencies : clock' = clock + l
    /\ \E answered \in BOOLEAN :
         IF answered
         THEN /\ ntp_time' = clock' + drift
              /\ HelperGoto("k_check")
         ELSE /\ UNCHANGED ntp_time
              /\ HelperEnds("NTPException", "pdc", 0)
    /\ UNCHANGED <<servicevars, krbvars, drift, nas_time, dnsvars>>

\* clockskew = abs(ntp_time - nas_time) and the comparison
check_clockskew_check ==
    /\ hop = "check_clockskew" /\ hpc = "k_check"
    /\ LET clockskew == Abs(ntp_time - nas_time)
       IN IF clockskew > permitted_clockskew
          THEN HelperEnds("CallError", "pdc", clockskew)
          ELSE HelperEnds("return", "pdc", clockskew)
    /\ UNCHANGED <<servicevars, krbvars, skewvars, dnsvars>>

\* ---- ActiveDirectory_DNS.get_n_working_servers
\* the SRV records a DNS answer can hold, and the answers (an RRset in the
\* order the resolver gives it)
SRVPool ==
    {[target |-> "dc1", priority |-> 0, weight |-> 100],
     [target |-> "dc2", priority |-> 0, weight |-> 50],
     [target |-> "dc3", priority |-> 10, weight |-> 0],
     [target |-> "dc4", priority |-> 0, weight |-> 100]}
Answers ==
    {a \in UNION {[1..n -> SRVPool] : n \in 0..MaxRecords} :
        \A i, k \in DOMAIN a : i # k => a[i] # a[k]}

\* key=lambda a: (int(a.priority), int(a.weight)), compared as tuples
KeyLess(a, b) ==
    \/ a.priority < b.priority
    \/ a.priority = b.priority /\ a.weight < b.weight

\* sorted(answers, key=...): stable, equal keys keep the answer's order
RECURSIVE sorted(_)
sorted(a) ==
    IF a = <<>> THEN <<>>
    ELSE LET t == sorted(SubSeq(a, 1, Len(a) - 1))
             x == a[Len(a)]
             k == Cardinality({i \in 1..Len(t) : ~KeyLess(x, t[i])})
         IN SubSeq(t, 1, k) \o <<x>> \o SubSeq(t, k + 1, Len(t))

\* (a lookup that keeps the resolver's order)
get_SRV_records_Unsorted(answers) == answers
\* _get_SRV_records: the sorted answer ([] for a failed query)
get_SRV_records(answers) == sorted(answers)

\* get_n_working_servers is called
get_n_working_servers_call ==
    /\ HelperCall("get_n_working_servers", "n_servers")
    /\ \E n \in 1..MaxNumber : number' = n
    /\ servers' = <<>>
    /\ idx' = 1
    /\ found_servers' = <<>>
    /\ probed' = <<>>
    /\ reachable' = {}
    /\ UNCHANGED <<servicevars, krbvars, skewvars>>

\* _get_servers: the query for the site, and for the whole domain when
\* that one gave nothing
get_servers ==
    /\ hop = "get_n_working_servers" /\ hpc = "n_servers"
    /\ \E site \in BOOLEAN, in_site \in Answers :
         IF get_SRV_records(in_site) = <<>> /\ site
         THEN \E in_domain \in Answers : servers' = get_SRV_records(in_domain)
         ELSE servers' = get_SRV_records(in_site)
    /\ reachable' \in SUBSET {servers'[i].target : i \in 1..Len(servers')}
    /\ HelperGoto("n_loop")
    /\ UNCHANGED <<servicevars, krbvars, skewvars, number, idx, found_servers,
                   probed>>

\* port_is_listening: the connect succeeds, or its exception is caught
port_is_listening(host) == host \in reachable

\* (a loop that never stops early)
Enough_Never(found, n) == FALSE
\* if len(found_servers) == number: break
Enough(found, n) == Len(found) = n

\* for server in servers: break once `number` are found, else probe
get_n_working_servers_loop ==
    /\ hop = "get_n_working_servers" /\ hpc = "n_loop"
    /\ IF idx > Len(servers) \/ Enough(found_servers, number)
       THEN /\ HelperEnds("return", "", 0)
            /\ UNCHANGED <<idx, found_servers, probed>>
       ELSE /\ found_servers' = IF port_is_listening(servers[idx].target)
                                THEN Append(found_servers, servers[idx].target)
                                ELSE found_servers
            /\ probed' = Append(probed, servers[idx].target)
            /\ idx' = idx + 1
            /\ HelperGoto("n_loop")
    /\ UNCHANGED <<servicevars, krbvars, skewvars, number, servers, reachable>>

\* -------------------------------------------------------------- do_update
\* The payloads: every field given. The realm is the domain's realm id or
\* null; names and aliases are the stored ones, other ones, or empty.
NetbiosNames == {"", "NAS", "NAS2"}
NetbiosAliases == {"", "ALIAS"}
Payloads ==
    [enable : BOOLEAN, bindpw : BOOLEAN, domainname : BOOLEAN,
     kerberos_principal : BOOLEAN, kerberos_realm : BOOLEAN,
     netbiosname : NetbiosNames, netbiosalias : NetbiosAliases]

\* new = old.copy(); new.update(data)
Updated(o, d) ==
    [o EXCEPT !.enable = d.enable, !.bindpw = d.bindpw,
              !.domainname = d.domainname,
              !.kerberos_principal = d.kerberos_principal,
              !.kerberos_realm = d.kerberos_realm,
              !.netbiosname = d.netbiosname, !.netbiosalias = d.netbiosalias]

\* self.config(): the stored configuration, extended with the NetBIOS data
Extended(c, nb) ==
    [enable |-> c.enable, bindpw |-> c.bindpw, domainname |-> c.domainname,
     site |-> c.site, kerberos_principal |-> c.kerberos_principal,
     kerberos_realm |-> c.kerberos_realm,
     netbiosname |-> nb.netbiosname, netbiosalias |-> nb.netbiosalias]

\* ad_compress: the NetBIOS keys are dropped before the datastore update
ad_compress(n) ==
    [enable |-> n.enable, bindpw |-> n.bindpw, domainname |-> n.domainname,
     site |-> n.site, kerberos_principal |-> n.kerberos_principal,
     kerberos_realm |-> n.kerberos_realm]

\* update_netbios_data: the loop over the keys; the last key that differs
\* decides
must_update(o, n) ==
    LET after_name == IF o.netbiosname # n.netbiosname
                      THEN n.netbiosname # "" ELSE FALSE
    IN IF o.netbiosalias # n.netbiosalias
       THEN n.netbiosalias # "" ELSE after_name

\* common_validate: the keys of the errors it adds (realm_found: the
\* kerberos.realm.query result; ldap: the state of the LDAP service)
common_validate(n, o, realm_found, ldap) ==
    (IF n.kerberos_realm /\ n.kerberos_realm # o.kerberos_realm /\ ~realm_found
     THEN {"kerberos_realm"} ELSE {})
    \cup
    (IF ~n.enable THEN {}
     ELSE (IF ldap # "DISABLED" THEN {"enable"} ELSE {})
          \cup (IF n.enable /\ o.enable /\ n.kerberos_realm # o.kerberos_realm
                THEN {"kerberos_realm"} ELSE {})
          \cup (IF ~n.bindpw /\ ~n.kerberos_principal THEN {"bindname"} ELSE {})
          \cup (IF n.bindpw /\ n.kerberos_principal
                THEN {"kerberos_principal"} ELSE {})
          \cup (IF ~n.domainname THEN {"domainname"} ELSE {}))

updframe == <<status, workgroup, ha_mode, failover, leavevars, admvars,
              sysvars, healthvars, op, pc,
              result, progress, locals, monvars, hcalls, drift, dnsvars>>

UpdateGoto(l) ==
    /\ upc' = l
    /\ UNCHANGED <<uresult, data, old, new, before, job, idmap>>

\* do_update returns or raises: its frame is gone
UpdateEnds(r) ==
    /\ upc' = "done"
    /\ uresult' = r
    /\ data' = NoPayload
    /\ old' = NoData
    /\ new' = NoData
    /\ UNCHANGED before

\* do_update raises
UpdateRaises(e) == UpdateEnds(e) /\ UNCHANGED <<job, idmap>>

\* a helper method is called from do_update
Invoke(o, l) ==
    /\ hop' = o
    /\ hpc' = l
    /\ hresult' = NoResult

\* do_update is called: old = config(); new = old.copy(); new.update(data)
do_update_call ==
    /\ upc \in {"idle", "done"}
    /\ hpc \in {"idle", "done"}
    /\ calls < MaxCalls
    /\ calls' = calls + 1
    /\ old' = Extended(config, netbios)
    /\ \E d \in Payloads :
         /\ data' = d
         /\ new' = Updated(old', d)
    /\ before' = [config |-> config, status |-> status,
                  netbiosname |-> netbios.netbiosname,
                  netbiosalias |-> netbios.netbiosalias, queue |-> queue]
    /\ upc' = "u_netbios"
    /\ uresult' = "none"
    /\ job' = "none"
    /\ idmap' = FALSE
    /\ UNCHANGED <<updframe, config, netbios, queue, hop, hpc, hresult, krbvars,
                   clock, nas_time, ntp_time>>

\* do_update: update_netbios_data(old, new); an exception of smb.update or
\* network.configuration.update becomes a ValidationError
do_update_netbios ==
    /\ upc = "u_netbios"
    /\ IF must_update(old, new)
       THEN \E accepted \in BOOLEAN :
              IF accepted
              THEN /\ netbios' = [netbiosname |-> new.netbiosname,
                                  netbiosalias |-> new.netbiosalias]
                   /\ UpdateGoto("u_validate")
              ELSE /\ UNCHANGED netbios
                   /\ UpdateRaises("ValidationError")
       ELSE /\ UNCHANGED netbios
            /\ UpdateGoto("u_validate")
    /\ UNCHANGED <<updframe, config, queue, calls, hop, hpc, hresult, krbvars,
                   clock, nas_time, ntp_time>>

\* do_update: common_validate, verrors.check(), and when the service is
\* being enabled the call of validate_credentials
do_update_validate ==
    /\ upc = "u_validate"
    /\ \E realm_found \in BOOLEAN, ldap \in {"DISABLED", "HEALTHY"} :
         IF common_validate(new, old, realm_found, ldap) # {}
         THEN /\ UpdateRaises("ValidationErrors")
              /\ UNCHANGED <<hop, hpc, hresult, net>>
         ELSE IF new.enable /\ ~old.enable
         THEN /\ UpdateGoto("u_credentials")
              /\ Invoke("validate_credentials", "v_klist")
              /\ net' = <<>>
         ELSE /\ UpdateGoto("u_store")
              /\ UNCHANGED <<hop, hpc, hresult, net>>
    /\ UNCHANGED <<updframe, config, netbios, queue, calls, tgt, clock,
                   nas_time, ntp_time>>

\* do_update: validate_credentials has returned or raised; then
\* check_clockskew is called (nas_time = datetime.datetime.now())
do_update_credentials ==
    /\ upc = "u_credentials"
    /\ hop = "validate_credentials" /\ hpc = "done"
    /\ IF hresult.kind = "CallError"
       THEN /\ UpdateRaises("ValidationError")
            /\ UNCHANGED <<hop, hpc, hresult, nas_time, ntp_time>>
       ELSE /\ UpdateGoto("u_clockskew")
            /\ Invoke("check_clockskew", "k_lookup")
            /\ nas_time' = clock
            /\ ntp_time' = 0
    /\ UNCHANGED <<updframe, config, netbios, queue, calls, krbvars, clock>>

\* (an update that only logs what check_clockskew raises)
Refused_Never(kind) == FALSE
\* except ntplib.NTPException: logged; except Exception: ValidationError
Refused(kind) == kind \notin {"return", "NTPException"}

\* do_update: check_clockskew has returned or raised; an NTPException is
\* logged, any other exception stops kerberos and becomes a ValidationError
do_update_clockskew ==
    /\ upc = "u_clockskew"
    /\ hop = "check_clockskew" /\ hpc = "done"
    /\ IF Refused(hresult.kind)
       THEN /\ tgt' = FALSE
            /\ UpdateRaises("ValidationError")
       ELSE /\ UNCHANGED tgt
            /\ UpdateGoto("u_store")
    /\ UNCHANGED <<updframe, config, netbios, queue, calls, hop, hpc, hresult,
                   net, clock, nas_time, ntp_time>>

\* do_update: ad_compress and the datastore update
do_update_store ==
    /\ upc = "u_store"
    /\ config' = ad_compress(new)
    /\ UpdateGoto("u_apply")
    /\ UNCHANGED <<updframe, netbios, queue, calls, hop, hpc, hresult, krbvars,
                   clock, nas_time, ntp_time>>

\* (an update that starts the service whenever the new configuration
\* enables it)
Applied_EnabledStarts(o, n) == IF n.enable THEN "start" ELSE "stop"
\* job = None; if not old['enable'] and new['enable']: start; elif not
\* new['enable'] and old['enable']: stop
Applied(o, n) ==
    IF ~o.enable /\ n.enable THEN "start"
    ELSE IF ~n.enable /\ o.enable THEN "stop"
    ELSE "none"

\* do_update: the registry is synchronized, then activedirectory.start or
\* activedirectory.stop is submitted, or idmap is restarted; return
do_update_apply ==
    /\ upc = "u_apply"
    /\ job' = Applied(old, new)
    /\ queue' = IF job' = "none" THEN queue ELSE Append(queue, job')
    /\ idmap' = (new.enable /\ old.enable)
    /\ UpdateEnds("ok")
    /\ UNCHANGED <<updframe, config, netbios, calls, hop, hpc, hresult,
                   krbvars, clock, nas_time, ntp_time>>

\* ------------------------------------------- SystemDatasetService.do_update
\* `pool` of the payload: a pool by name, null, or not given
PoolArgs == Pools \cup {"ghost", "null", "absent"}
\* `pool_exclude` of the payload: a pool, or not given
ExcludeArgs == (Pools \ {BootPool}) \cup {"none"}

\* (a check that lets a FAULTED service move its dataset)
ad_enabled_HealthyOnly(st) == st = "HEALTHY"
\* activedirectory.get_state() in ['HEALTHY', 'FAULTED']
ad_enabled(st) == st \in {"HEALTHY", "FAULTED"}

\* the for loop over pool.query: destination_pool_error(...) is called
\* without await there, the coroutine it gives is true for every pool, so
\* every pool is skipped and the loop ends in its else branch
first_usable_pool(candidates) == ""

\* setup(): the first pool of pool.query that is not exclude_pool and not
\* locked or passphrase-encrypted ("none": there is none)
first_data_pool(exclude) ==
    LET usable == {i \in DOMAIN DataPools :
                      DataPools[i] # exclude /\ DataPools[i] \notin locked}
    IN IF usable = {} THEN "none"
       ELSE DataPools[CHOOSE i \in usable : \A k \in usable : i <= k]

\* if cp.returncode == 0
CopySucceeded(returncode) == returncode = 0

sysframe == <<status, config, workgroup, ha_mode, failover, leavevars,
              helpervars, admvars, updvars, op, pc, result, progress, locals,
              queue, monvars, locked, healthvars>>

SysGoto(l) ==
    /\ dpc' = l
    /\ UNCHANGED <<dresult, dconfig, dnew, system_ready, pool_exclude>>

\* the job returns or raises
SysEnds(r) ==
    /\ dpc' = "done"
    /\ dresult' = r
    /\ UNCHANGED <<dconfig, dnew, system_ready, pool_exclude>>

\* systemdataset.update runs (one at a time: lock sysdataset_update):
\* config = self.config(); new = config.copy(); new.update(data)
Update(a, x) ==
    /\ dpc \in {"idle", "done"}
    /\ calls < MaxCalls
    /\ calls' = calls + 1
    /\ dconfig' = config_extend(sys_pool)
    /\ dnew' = IF a = "absent" THEN dconfig' ELSE a
    /\ pool_exclude' = x
    /\ system_ready' \in BOOLEAN
    /\ dpc' = "d_validate"
    /\ dresult' = "none"
    /\ cp' = -1
    /\ UNCHANGED <<sysframe, sys_pool, mounted, datasets, services>>

sysdataset_update_call ==
    \E a \in PoolArgs, x \in ExcludeArgs : Update(a, x)

\* the pool.pre_export hook: the pool that hosts the system dataset is
\* about to be exported
pool_pre_export ==
    \E pool \in Pools \ {BootPool} :
        /\ config_extend(sys_pool) = pool
        /\ Update("null", pool)

\* lines 131-182: the checks on the requested pool, then verrors.check()
moved == dnew # dconfig
relocation_refused == moved /\ system_ready /\ ad_enabled(status)
pool_not_found == dnew \notin Pools \cup {"null"}
pool_locked == dnew \in locked

sysdataset_update_validate ==
    /\ dpc = "d_validate"
    /\ \E no_space \in BOOLEAN :
          IF \/ relocation_refused
             \/ pool_not_found
             \/ pool_locked
             \/ moved /\ dnew \in Pools /\ no_space
          THEN SysEnds("ValidationError")
          ELSE SysGoto("d_store")
    /\ UNCHANGED <<sysframe, calls, sys_pool, mounted, datasets, services, cp>>

\* what the update stores as sys_pool
Chosen(a) == IF a = "null" THEN first_usable_pool(DataPools) ELSE a

\* datastore.update, new = self.config(), and the choice to migrate
sysdataset_update_store ==
    /\ dpc = "d_store"
    /\ sys_pool' = Chosen(dnew)
    /\ SysGoto(IF dconfig # config_extend(sys_pool') THEN "m_setup"
               ELSE "d_setup")
    /\ UNCHANGED <<sysframe, calls, mounted, datasets, services, cp>>

\* migrate(_from, _to)
_from == dconfig
_to == config_extend(sys_pool)

\* an exception leaves the try block of migrate() for its finally block
MigrateRaises(e) ==
    /\ dpc' = "m_finally"
    /\ dresult' = e
    /\ UNCHANGED <<dconfig, dnew, system_ready, pool_exclude>>

\* __umount(pool): umount -f takes one mount of the dataset away; a
\* dataset that is not mounted counts as already unmounted
Unmounted(m, pool) ==
    IF \A place \in DOMAIN m : m[place] # pool THEN {m}
    ELSE {[m EXCEPT ![place] = "none"] : place \in {q \in DOMAIN m : m[q] = pool}}

\* __mount(pool, path): a path that is a mount point already is skipped
Mounted(m, pool, place) ==
    IF m[place] # "none" THEN m ELSE [m EXCEPT ![place] = pool]

\* __setup_datasets(_to), umount -R /tmp/system.new, __mount(_to) there
sysdataset_migrate_setup ==
    /\ dpc = "m_setup"
    /\ datasets' = datasets \cup {_to}
    /\ \/ /\ mounted' = Mounted([mounted EXCEPT !.tmp = "none"], _to, "tmp")
          /\ SysGoto("m_stop")
       \/ /\ mounted' = [mounted EXCEPT !.tmp = "none"]
          /\ SysEnds("CalledProcessError")
    /\ UNCHANGED <<sysframe, calls, sys_pool, services, cp>>

\* syslogd off the dataset, the services that use it stopped
sysdataset_migrate_stop ==
    /\ dpc = "m_stop"
    /\ services' = "stopped"
    /\ SysGoto("m_copy")
    /\ UNCHANGED <<sysframe, calls, sys_pool, mounted, datasets, cp>>

\* rsync -az /var/db/system/ /tmp/system.new (check=False)
sysdataset_migrate_copy ==
    /\ dpc = "m_copy"
    /\ cp' \in {0, 1}
    /\ SysGoto("m_copied")
    /\ UNCHANGED <<sysframe, calls, sys_pool, mounted, datasets, services>>

\* if cp.returncode == 0: __umount(_from) ... else: raise CallError
sysdataset_migrate_umount_from ==
    /\ dpc = "m_copied"
    /\ IF CopySucceeded(cp)
       THEN \/ /\ mounted' \in Unmounted(mounted, _from)
               /\ SysGoto("m_umount_to")
            \/ /\ MigrateRaises("CallError")
               /\ UNCHANGED mounted
       ELSE /\ MigrateRaises("CallError")
            /\ UNCHANGED mounted
    /\ UNCHANGED <<sysframe, calls, sys_pool, datasets, services, cp>>

\* __umount(_to)
sysdataset_migrate_umount_to ==
    /\ dpc = "m_umount_to"
    /\ \/ /\ mounted' \in Unmounted(mounted, _to)
          /\ SysGoto("m_mount")
       \/ /\ MigrateRaises("CallError")
          /\ UNCHANGED mounted
    /\ UNCHANGED <<sysframe, calls, sys_pool, datasets, services, cp>>

\* __mount(_to, SYSDATASET_PATH)
sysdataset_migrate_mount ==
    /\ dpc = "m_mount"
    /\ \/ /\ mounted' = Mounted(mounted, _to, "sys")
          /\ SysGoto("m_destroy")
       \/ /\ mounted.sys = "none"
          /\ MigrateRaises("CalledProcessError")
          /\ UNCHANGED mounted
    /\ UNCHANGED <<sysframe, calls, sys_pool, datasets, services, cp>>

\* zfs destroy -r _from/.system, rmdir /tmp/system.new
sysdataset_migrate_destroy ==
    /\ dpc = "m_destroy"
    /\ datasets' = datasets \ {_from}
    /\ mounted' = [place \in DOMAIN mounted |->
                     IF mounted[place] = _from THEN "none" ELSE mounted[place]]
    /\ dpc' = "m_finally"
    /\ UNCHANGED <<dresult, dconfig, dnew, system_ready, pool_exclude>>
    /\ UNCHANGED <<sysframe, calls, sys_pool, services, cp>>

\* finally: the services start again; a pending exception goes on up
sysdataset_migrate_finally ==
    /\ dpc = "m_finally"
    /\ services' = "running"
    /\ IF dresult = "none" THEN SysGoto("d_setup") ELSE SysEnds(dresult)
    /\ UNCHANGED <<sysframe, calls, sys_pool, mounted, datasets, cp>>

\* setup(): with no pool stored and a data pool at hand it hands over to
\* another update job and waits for it; else it creates the datasets of
\* the configured pool and mounts them where nothing is mounted yet
sysdataset_update_setup ==
    /\ dpc = "d_setup"
    /\ IF sys_pool = "" /\ first_data_pool(pool_exclude) # "none"
       THEN /\ SysGoto("d_handover")
            /\ UNCHANGED <<mounted, datasets>>
       ELSE /\ datasets' = datasets \cup {_to}
            /\ \/ /\ mounted' = Mounted(mounted, _to, "sys")
                  /\ SysEnds("ok")
               \/ /\ mounted.sys = "none"
                  /\ SysEnds("CalledProcessError")
                  /\ UNCHANGED mounted
    /\ UNCHANGED <<sysframe, calls, sys_pool, services, cp>>

\* ------------------------------------------------------------ started()
\* what started() leaves alone
startedframe == <<workgroup, ha_mode, failover, leavevars, helpervars,
                  admvars, updvars, sysvars, op, pc, result, progress,
                  locals, queue, monvars>>

StartedGoto(l) ==
    /\ kpc' = l
    /\ UNCHANGED <<kresult, kconfig>>

\* started() returns or raises: its frame is gone
StartedEnds(r) ==
    /\ kpc' = "done"
    /\ kresult' = r
    /\ kconfig' = NoConfig

\* started() is called (a plain method: no job, no lock); config is read
started_call ==
    /\ kpc \in {"idle", "done"}
    /\ calls < MaxCalls
    /\ calls' = calls + 1
    /\ kpc' = "k_enable"
    /\ kresult' = "none"
    /\ kconfig' = config
    /\ UNCHANGED <<status, config, startedframe>>

\* started(): a disabled service is given the status DISABLED
started_enable ==
    /\ kpc = "k_enable"
    /\ IF ~kconfig.enable
       THEN /\ set_state("DISABLED")
            /\ StartedEnds("False")
       ELSE /\ StartedGoto("k_validate")
            /\ UNCHANGED status
    /\ UNCHANGED <<config, calls, startedframe>>

\* started(): common_validate(config, config); an invalid configuration
\* disables the service
started_validate ==
    /\ kpc = "k_validate"
    /\ \E ldap \in {"DISABLED", "HEALTHY"} :
         IF common_validate(kconfig, kconfig, TRUE, ldap) # {}
         THEN /\ config' = [config EXCEPT !.enable = FALSE]
              /\ StartedEnds("CallError")
         ELSE /\ StartedGoto("k_ready")
              /\ UNCHANGED config
    /\ UNCHANGED <<status, calls, startedframe>>

\* started(): until the system has booted the status is set to JOINING
started_ready ==
    /\ kpc = "k_ready"
    /\ \E ready \in BOOLEAN :
         IF ~ready
         THEN /\ set_state("JOINING")
              /\ StartedEnds("True")
         ELSE /\ StartedGoto("k_ping")
              /\ UNCHANGED status
    /\ UNCHANGED <<config, calls, startedframe>>

\* started(): `wbinfo -P` returns; a failure raises CallError
started_ping ==
    /\ kpc = "k_ping"
    /\ \E returncode \in {0, 1} :
         IF returncode # 0
         THEN StartedEnds("CallError")
         ELSE StartedGoto("k_cache")
    /\ UNCHANGED <<status, config, calls, startedframe>>

\* started(): the cached state is read and compared with HEALTHY
started_cache ==
    /\ kpc = "k_cache"
    /\ IF status # "HEALTHY"
       THEN StartedGoto("k_healthy")
       ELSE StartedEnds("True")
    /\ UNCHANGED <<status, config, calls, startedframe>>

\* started(): set_state(HEALTHY); return True
started_healthy ==
    /\ kpc = "k_healthy"
    /\ set_state("HEALTHY")
    /\ StartedEnds("True")
    /\ UNCHANGED <<config, calls, startedframe>>

\* ------------------------------------------------------- specification
JobStep(j) ==
    \/ JobAcquire(j)
    \/ start_entry(j) \/ start_check(j) \/ start_joining(j) \/ start_enable(j)
    \/ start_realm(j) \/ start_ticket(j) \/ start_site(j) \/ start_netbios(j)
    \/ start_testjoin(j) \/ start_classify(j) \/ start_join(j)
    \/ start_joined(j) \/ start_spn(j) \/ start_keytab(j)
    \/ start_idmap(j) \/ start_restart(j) \/ start_final(j)
    \/ start_monitor(j) \/ start_dscache(j) \/ start_cluster(j)
    \/ stop_entry(j) \/ stop_leaving(j) \/ stop_monitor(j) \/ stop_cancel(j)
    \/ stop_kerberos(j)
    \/ stop_smb(j) \/ stop_disabled(j) \/ stop_cache(j) \/ stop_final(j)
    \/ Raise(j)

LeaveStep ==
    \/ leave_entry \/ leave_kinit \/ leave_netads \/ leave_records
    \/ leave_update \/ leave_disabled \/ leave_cleanup \/ LeaveRaise

ThreadStep(t) ==
    \/ read_messages_loop(t) \/ read_messages_read(t)
    \/ parse_msg_json(t) \/ parse_msg_decode(t)
    \/ parse_msg_write(t) \/ parse_msg_alert(t)

Next ==
    \/ \E o \in {"start", "stop"} : Submit(o)
    \/ \E j \in Jobs : JobStep(j)
    \/ LeaveStep
    \/ \E t \in Threads : ThreadStep(t)
    \/ \E m \in WinbindLines : WinbindWrite(m)

Spec == Init /\ [][Next]_vars

\* a joined server: enabled, the keytab stored, the status HEALTHY
Joined ==
    /\ status = "HEALTHY"
    /\ config = [enable |-> TRUE, bindpw |-> FALSE, domainname |-> TRUE,
                 site |-> TRUE, kerberos_principal |-> TRUE,
                 kerberos_realm |-> TRUE]
    /\ workgroup = ADDomain

\* The monitor service called directly on a joined server whose listener
\* has not been started yet (middlewared has just come up).
MonitorInit ==
    /\ Joined
    /\ OnPool("", {})
    /\ ha_mode = "STANDALONE" /\ failover = "SINGLE"
    /\ NothingRunning
    /\ HelperIdle
    /\ tgt = TRUE
    /\ drift = 0

CallerStep(c) ==
    \/ \E o \in MonitorCalls : admonitor_call(c, o)
    \/ admonitor_start_enable(c) \/ admonitor_start_lock(c)
    \/ admonitor_start_thread(c) \/ admonitor_start_initialized(c)
    \/ admonitor_stop_read(c) \/ admonitor_stop_write(c)
    \/ admonitor_stop_none(c) \/ admonitor_stop_lock(c)

MonitorNext ==
    \/ \E c \in Callers : CallerStep(c)
    \/ \E t \in Threads : ThreadStep(t)
    \/ \E m \in WinbindLines : WinbindWrite(m)

MonitorSpec == MonitorInit /\ [][MonitorNext]_vars

\* The configuration updated on a server that is not joined or is joined,
\* with or without a ticket, the domain's clock near or far.
UpdateDrifts == {0, 181, -240}

UpdateInit ==
    /\ \/ /\ ServiceInit
          /\ ha_mode = "STANDALONE"
       \/ /\ Joined
          /\ ha_mode = "STANDALONE" /\ failover = "SINGLE"
          /\ NothingRunning
          /\ OnPool("", {})
    /\ HelperIdle
    /\ tgt \in BOOLEAN
    /\ drift \in UpdateDrifts

UpdateNext ==
    \/ do_update_call \/ do_update_netbios \/ do_update_validate
    \/ do_update_credentials \/ do_update_clockskew
    \/ do_update_store \/ do_update_apply
    \/ validate_credentials_klist \/ validate_credentials_kinit
    \/ check_clockskew_lookup \/ check_clockskew_ntp \/ check_clockskew_check

UpdateSpec == UpdateInit /\ [][UpdateNext]_vars

\* the system dataset service next to a directory service in any state
SysdatasetInit ==
    /\ status \in DSNames
    /\ config = [enable |-> status # "DISABLED", bindpw |-> FALSE,
                 domainname |-> TRUE, site |-> TRUE,
                 kerberos_principal |-> TRUE, kerberos_realm |-> TRUE]
    /\ workgroup = ADDomain
    /\ ha_mode = "STANDALONE" /\ failover = "SINGLE"
    /\ NothingRunning
    /\ HelperIdle
    /\ tgt = TRUE
    /\ drift = 0
    /\ \E p \in {"", "tank"} :
         \E l \in SUBSET (Pools \ {BootPool, p}) : OnPool(p, l)

SysdatasetNext ==
    \/ sysdataset_update_call
    \/ pool_pre_export
    \/ sysdataset_update_validate
    \/ sysdataset_update_store
    \/ sysdataset_migrate_setup
    \/ sysdataset_migrate_stop
    \/ sysdataset_migrate_copy
    \/ sysdataset_migrate_umount_from
    \/ sysdataset_migrate_umount_to
    \/ sysdataset_migrate_mount
    \/ sysdataset_migrate_destroy
    \/ sysdataset_migrate_finally
    \/ sysdataset_update_setup

SysdatasetSpec == SysdatasetInit /\ [][SysdatasetNext]_vars

\* The helper methods, each from every input it is given.
HelperInit ==
    /\ ServiceInit
    /\ ha_mode = "STANDALONE"
    /\ HelperIdle
    /\ tgt \in BOOLEAN
    /\ drift \in Drifts

HelperNext ==
    \/ validate_credentials_call \/ validate_credentials_klist
    \/ validate_credentials_kinit \/ TicketExpires
    \/ check_clockskew_call \/ check_clockskew_lookup
    \/ check_clockskew_ntp \/ check_clockskew_check
    \/ get_n_working_servers_call \/ get_servers
    \/ get_n_working_servers_loop

HelperSpec == HelperInit /\ [][HelperNext]_vars

\* ------------------------------------------------------------- properties
Transitional == {"JOINING", "LEAVING"}
Parsing(t) == tpc[t] \in {"parse", "decode", "write", "alert"}
\* thread t takes a step of parse_msg
ParseStep(t) == Parsing(t) /\ (tpc'[t] # tpc[t] \/ batch'[t] # batch[t])
\* the lines thread t has parsed to the end
Completed(t) == Len(seen[t]) - (IF tpc[t] \in {"decode", "write", "alert"} THEN 1 ELSE 0)
StartBody(j) == op[j] = "start" /\ Running(j) /\ pc[j] \notin {"s_entry", "s_check"}

\* C1: a start() that got past its busy check and terminates, normally or by
\* raising at a sub-step, does not leave the persisted status JOINING.
C1_StartNeverEndsJoining ==
    [][\A j \in Jobs : (StartBody(j) /\ pc'[j] = "done") => status' # "JOINING"]_vars

C3_MutualExclusion ==
    \A j, k \in Jobs : j # k => ~(Running(j) /\ Running(k))

C3_Witness ==
    \E j \in Jobs : /\ Running(j) /\ op[j] = "start" /\ pc[j] = "s_realm"
                    /\ queue # <<>> /\ Head(queue) = "stop"

\* C4: a write of the monitor never turns a persisted JOINING or LEAVING
\* into HEALTHY or FAULTED.
C4_MonitorKeepsTransition ==
    [][\A t \in Threads :
         (tpc[t] = "write" /\ tpc'[t] = "alert" /\ status \in Transitional)
         => status' \notin {"HEALTHY", "FAULTED"}]_vars

\* C5: the monitor writes no status other than HEALTHY and FAULTED.
C5_MonitorWritesHealthyOrFaulted ==
    [][\A t \in Threads :
         (tpc[t] = "write" /\ tpc'[t] = "alert")
         => status' \in {"HEALTHY", "FAULTED"}]_vars

\* C6: a new listener fed a FAULTED and then a HEALTHY notification of the
\* configured domain, AD enabled, has raised the alert once and then cleared
\* it once.
C6_FaultedThenHealthy ==
    \A t \in Threads :
        (seen[t] = <<"F", "H">> /\ Completed(t) = 2 /\ workgroup = ADDomain)
        => acts[t] = <<"create", "delete">>

\* the alert call C7 allows for a change of the remembered status
EdgeAlert(was, now) ==
    IF was # DSStatusValue.FAULTED /\ now = DSStatusValue.FAULTED THEN <<"create">>
    ELSE IF was = DSStatusValue.FAULTED /\ now # DSStatusValue.FAULTED THEN <<"delete">>
    ELSE <<>>

\* C7: the monitor raises the alert exactly on a change from non-FAULTED to
\* FAULTED, clears it exactly on a change from FAULTED to non-FAULTED, and
\* makes no alert call otherwise.
C7_AlertOnFaultedEdgeOnly ==
    [][\A t \in Threads :
         ParseStep(t)
         => acts'[t] = acts[t] \o (IF tpc[t] = "alert"
                                   THEN EdgeAlert(state[t], new_state(t))
                                   ELSE <<>>)]_vars

\* C8: parsing a malformed line changes neither the persisted status nor
\* any alert.
C8_MalformedLineNoEffect ==
    [][\A t \in Threads :
         (ParseStep(t) /\ Head(batch[t]) \in MalformedLines)
         => /\ status' = status /\ alerts' = alerts /\ acts'[t] = acts[t]]_vars

C8_Witness ==
    \E t \in Threads : \E i \in 1..Completed(t) :
        seen[t][i] = "malformed" /\ state[t] = DSStatusValue.FAULTED

\* C9: after a malformed line the listener is still running.
C9_ListenerSurvivesMalformed ==
    \A t \in Threads :
        (Len(seen[t]) > 0 /\ seen[t][Len(seen[t])] = "malformed")
        => tpc[t] # "crashed"

\* C10: parsing a valid notification of another domain than the configured
\* workgroup changes neither the persisted status, nor self.state, nor any
\* alert.
C10_OtherDomainNoEffect ==
    [][\A t \in Threads :
         (ParseStep(t) /\ Head(batch[t]) \in ValidLines
          /\ Head(batch[t]).dom # workgroup)
         => /\ status' = status /\ state'[t] = state[t]
            /\ alerts' = alerts /\ acts'[t] = acts[t]]_vars

C10_Witness ==
    \E t \in Threads : \E i \in 1..Completed(t) :
        seen[t][i] = "foreign" /\ state[t] = DSStatusValue.FAULTED

\* C11: once admonitor.stop() has called cancel(), the call can still
\* return: the listener is running, so that it opens the fifo (or has it
\* open) and the blocking open of cancel() ends. (The other half of the
\* claim is SentinelNoEffect.)
C11_CancelReturns ==
    \A j \in Jobs : pc[j] = "p_cancel" => (thread # 0 /\ Alive(thread))

\* parsing the sentinel writes no status and makes no alert call
SentinelNoEffect ==
    [][\A t \in Threads :
         (ParseStep(t) /\ Head(batch[t]) = Sentinel)
         => /\ status' = status /\ alerts' = alerts /\ acts'[t] = acts[t]]_vars

\* job j takes a step of its own
JobMoves(j) == Running(j) /\ pc'[j] # pc[j]
\* the configuration is cleared as leave() is to clear it
Cleared(c) ==
    /\ ~c.enable /\ ~c.domainname /\ ~c.site
    /\ ~c.kerberos_realm /\ ~c.kerberos_principal

\* C12: a leave() whose `net ads leave` failed goes on as one whose command
\* succeeded: it deletes the local records, clears the configuration and
\* sets the status DISABLED, and it returns normally once its cleanup is done.
C12_LeaveToleratesRemoteFailure ==
    [][/\ (lpc = "l_netads" /\ lpc' # lpc) => lpc' = "l_records"
       /\ (lnetads # 0 /\ lpc = "l_update" /\ lpc' # lpc)
            => (Cleared(config') /\ lpc' = "l_disabled")
       /\ (lnetads # 0 /\ lpc = "l_disabled" /\ lpc' # lpc)
            => (status' = "DISABLED" /\ lpc' = "l_cleanup")
       /\ (lnetads # 0 /\ lpc = "l_cleanup" /\ lpc' # lpc /\ lresult' = "ok")
            => (lpc' = "done" /\ status' = status /\ config' = config)]_vars

C12_Witness ==
    /\ lpc = "done" /\ lresult = "ok" /\ lnetads # 0
    /\ status = "DISABLED" /\ Cleared(config)
    /\ \E j \in Jobs : op[j] = "start" /\ pc[j] = "done" /\ result[j] = "ok"

\* C13: a stop() or a leave() that terminates, whichever of its sub-steps
\* failed, ends with the persisted status DISABLED.
C13_DisableAlwaysReached ==
    [][/\ \A j \in Jobs :
            (op[j] = "stop" /\ JobMoves(j) /\ pc'[j] = "done")
            => status' = "DISABLED"
       /\ (lpc # "done" /\ lpc' = "done") => status' = "DISABLED"]_vars

\* C14: start() goes on to JOIN exactly when `net ads testjoin` failed with
\* a text containing a recoverable marker (NOTJOINED); with any other
\* failure text (FAULT) and with success (JOINED) it goes straight to the
\* restart of SMB, and the join, SPN, keytab and idmap steps are entered
\* only through JOIN.
C14_JoinIffNotJoined ==
    [][\A j \in Jobs : (op[j] = "start" /\ JobMoves(j)) =>
         /\ pc[j] = "s_classify" =>
              LET n == netads[j]
                  marked == n.returncode # 0 /\ n.stderr \cap errors_to_rejoin # {}
              IN /\ (pc'[j] = "s_join") <=> marked
                 /\ (ret'[j] = "NOTJOINED") <=> marked
                 /\ ~marked => /\ pc'[j] = "s_restart"
                               /\ ret'[j] = IF n.returncode = 0 THEN "JOINED"
                                            ELSE "FAULT"
         /\ pc'[j] = "s_join" => pc[j] = "s_classify"
         /\ pc'[j] \in {"s_joined", "s_spn", "s_keytab", "s_idmap"}
              => pc[j] \in {"s_join", "s_joined", "s_spn", "s_keytab"}]_vars

C14_Witness ==
    \E j \in Jobs : /\ pc[j] = "s_join" /\ ret[j] = "NOTJOINED"
                    /\ status = "JOINING"

\* C15: a start() whose TESTJOIN succeeds goes straight to the restart of
\* SMB (no join, SPN, keytab or idmap step); outside those steps a start()
\* changes the configuration at most by setting enable and the realm when
\* they were unset, and the workgroup when it was the default, so that a
\* second run changes nothing; with the result JOINED it sets HEALTHY.
C15_RestartIdempotent ==
    [][\A j \in Jobs : (op[j] = "start" /\ JobMoves(j)) =>
         /\ (pc[j] = "s_classify" /\ netads[j].returncode = 0)
              => (pc'[j] = "s_restart" /\ ret'[j] = "JOINED")
         /\ (pc[j] \notin {"s_enable", "s_realm", "s_keytab"}
              \/ (pc[j] = "s_enable" /\ config.enable)
              \/ (pc[j] = "s_realm" /\ ad[j].kerberos_realm))
              => config' = config
         /\ (pc[j] # "s_netbios" \/ smb[j] # DefaultWorkgroup)
              => workgroup' = workgroup
         /\ (pc[j] = "s_final" /\ ret[j] = "JOINED") => status' = "HEALTHY"]_vars

C15_Witness ==
    \E j \in Jobs : /\ pc[j] = "s_final" /\ ret[j] = "JOINED"
                    /\ thread # 0 /\ workgroup = ADDomain
                    /\ ad[j].enable /\ ad[j].kerberos_realm

\* C16: a `net ads join` that returns non-zero sets the status FAULTED and
\* ends start() with an error, whatever the command printed.
C16_JoinFailureFaults ==
    [][\A j \in Jobs :
         (JobMoves(j) /\ pc[j] = "s_joined" /\ netads[j].returncode # 0)
         => /\ status' = "FAULTED"
            /\ pc'[j] = "done"
            /\ result'[j] \in {"error", "EINVAL"}]_vars

C16_Witness ==
    \E j \in Jobs : /\ op[j] = "start" /\ pc[j] = "done"
                    /\ result[j] = "EINVAL" /\ status = "FAULTED"

\* C17: whenever the machine account principal is stored the bind password
\* is empty, the keytab step that changes the configuration stores both,
\* and no step of start() or stop() restores the password or removes the
\* principal.
C17_KeytabOneWay ==
    [][/\ config'.kerberos_principal => ~config'.bindpw
       /\ \A j \in Jobs : JobMoves(j) =>
            /\ (pc[j] = "s_keytab" /\ config' # config)
                 => (~config'.bindpw /\ config'.kerberos_principal)
            /\ ~config.bindpw => ~config'.bindpw
            /\ config.kerberos_principal => config'.kerberos_principal]_vars

C17_Witness ==
    /\ config.kerberos_principal /\ ~config.bindpw
    /\ \E j \in Jobs : op[j] = "stop" /\ pc[j] = "done" /\ result[j] = "ok"

\* C18: a validate_credentials() that finds a valid ticket makes the ticket
\* test and nothing else: no get_cred, no do_kinit, no change of the ticket,
\* the configuration or the status; it returns.
C18_ValidateShortCircuits ==
    [][(hop = "validate_credentials" /\ hpc = "v_klist" /\ tgt /\ hpc' # hpc)
       => /\ hpc' = "done" /\ hresult'.kind = "return"
          /\ net' = Append(net, "_klist_test")
          /\ tgt' = tgt /\ config' = config /\ status' = status]_vars

\* two calls in a row: the first acquired the ticket, the second only tested it
C18_Witness ==
    /\ hop = "validate_credentials" /\ hpc = "done" /\ hcalls = 2
    /\ net = <<"_klist_test", "get_cred", "do_kinit", "_klist_test">>

\* C19: with the reference server found and answering, check_clockskew()
\* raises exactly when the server's clock is more than 3 minutes away from
\* the local clock, in either direction, and otherwise returns the server
\* and that distance.
C19_SkewGate ==
    (hop = "check_clockskew" /\ hpc = "done" /\ hresult.pdc = "pdc"
     /\ hresult.kind # "NTPException")
    => /\ (hresult.kind = "CallError") <=> (Abs(drift) > permitted_clockskew)
       /\ hresult.kind = "return" => hresult.clockskew = Abs(drift)

\* the rank of a returned host: the key of its SRV record
RecordOf(host) == CHOOSE r \in SRVPool : r.target = host
Ascending(hosts) ==
    \A i, k \in 1..Len(hosts) :
        i < k => ~KeyLess(RecordOf(hosts[k]), RecordOf(hosts[i]))
NoRepeat(q) == \A i, k \in 1..Len(q) : i # k => q[i] # q[k]

\* C20: the candidates (the SRV records of the answer) are kept and
\* returned in ascending (priority, weight) order, and no candidate is
\* probed twice in one call.
C20_RankedProbedOnce ==
    (hop = "get_n_working_servers" /\ hpc \in {"n_loop", "done"})
    => /\ Ascending([i \in 1..Len(servers) |-> servers[i].target])
       /\ Ascending(found_servers)
       /\ Ascending(probed)
       /\ NoRepeat(probed)
       /\ \A i \in 1..Len(found_servers) :
            \E k \in 1..Len(probed) : probed[k] = found_servers[i]

C20_Witness ==
    /\ hop = "get_n_working_servers" /\ hpc = "done"
    /\ probed = <<"dc2", "dc4", "dc3">> /\ found_servers = <<"dc2", "dc3">>

\* the hosts of the ranked candidates, and the reachable ones among them
Ranked == [i \in 1..Len(servers) |-> servers[i].target]
IsReachable(host) == host \in reachable
Reachable == SelectSeq(Ranked, IsReachable)
\* the candidates up to the n-th reachable one (all of them when fewer than
\* n are reachable)
UpToNth(n) ==
    IF Len(Reachable) < n THEN Ranked
    ELSE LET k == CHOOSE i \in 0..Len(Ranked) :
                    Len(SelectSeq(SubSeq(Ranked, 1, i), IsReachable)) = n
                    /\ (i > 0 => IsReachable(Ranked[i]))
         IN SubSeq(Ranked, 1, k)

\* C21: get_n_working_servers returns, without raising, the first
\* min(number, reachable candidates) reachable candidates in ranked order,
\* and has probed the candidates up to the last one it returns when it found
\* `number`, all of them otherwise.
C21_FirstNReachable ==
    (hop = "get_n_working_servers" /\ hpc = "done")
    => /\ hresult.kind = "return"
       /\ found_servers = SubSeq(Reachable, 1,
                                 IF number < Len(Reachable) THEN number
                                 ELSE Len(Reachable))
       /\ probed = UpToNth(number)

C21_Witness ==
    /\ hop = "get_n_working_servers" /\ hpc = "done" /\ number = 1
    /\ Len(servers) = 3 /\ reachable = {servers[2].target, servers[3].target}
    /\ probed = <<servers[1].target, servers[2].target>>

\* C22: whenever the stored configuration has enable set, exactly one of
\* the bind password and the kerberos principal is non-empty.
C22_OneCredentialWhenEnabled ==
    config.enable => (config.bindpw # config.kerberos_principal)

\* C24: every change of the persisted status, whoever makes it (start, stop,
\* leave, the monitor), follows one of the edges DISABLED -> JOINING,
\* JOINING -> HEALTHY, JOINING -> FAULTED, HEALTHY -> LEAVING,
\* LEAVING -> DISABLED, HEALTHY -> FAULTED, FAULTED -> HEALTHY.
StatusEdges ==
    {<<"DISABLED", "JOINING">>, <<"JOINING", "HEALTHY">>,
     <<"JOINING", "FAULTED">>, <<"HEALTHY", "LEAVING">>,
     <<"LEAVING", "DISABLED">>, <<"HEALTHY", "FAULTED">>,
     <<"FAULTED", "HEALTHY">>}
C24_StatusFollowsEdges ==
    [][status' # status => <<status, status'>> \in StatusEdges]_vars

\* C26: the percentages one start() or stop() reports begin at 0, never
\* decrease, and end with 100 exactly when the call completed normally;
\* nothing is reported after 100.
NonDecreasing(q) == \A i \in 1..(Len(q) - 1) : q[i] <= q[i + 1]
Reaches100(q) == q # <<>> /\ q[Len(q)] = 100
WellFormed(q) ==
    /\ q # <<>> => q[1] = 0
    /\ NonDecreasing(q)
    /\ \A i \in 1..(Len(q) - 1) : q[i] # 100
C26_ProgressTo100 ==
    \A j \in Jobs :
        /\ WellFormed(progress[j])
        /\ pc[j] = "done" =>
             (result[j] \in {"ok", "returned"} <=> Reaches100(progress[j]))
        /\ Running(j) => ~Reaches100(progress[j])

\* C26 (as the code has it): the same, except that a start() on the standby
\* controller of a UNIFIED pair returns at once, normally, having reported
\* nothing.
C26_ProgressTo100UnlessStandby ==
    \A j \in Jobs :
        /\ WellFormed(progress[j])
        /\ pc[j] = "done" =>
             /\ result[j] = "ok" <=> Reaches100(progress[j])
             /\ result[j] = "returned" => progress[j] = <<>>
        /\ Running(j) => ~Reaches100(progress[j])
C26_Witness ==
    \E j \in Jobs :
        /\ op[j] = "start" /\ pc[j] = "done" /\ result[j] = "ok"
        /\ progress[j] = <<0, 5, 20, 30, 40, 50, 60, 70, 80, 90, 100>>

\* C29: a failed registration of the NFS service principals during a fresh
\* join ends start() there: no start() is running past that step with the
\* registration failed, so none stores the keytab or sets HEALTHY after it.
C29_SpnFailureFatal ==
    \A j \in Jobs : Running(j) => spn_job[j] # "FAILED"

\* C30: when the keytab step of start() ends without a keytab stored,
\* whether store_samba_keytab returned nothing or failed with an error,
\* start() goes on to the idmap step with the bind password and the
\* principal as they were.
C30_KeytabFailureNonFatal ==
    [][\A j \in Jobs :
          (/\ pc[j] = "s_keytab" /\ pc'[j] # "s_keytab"
           /\ config' # KeytabStored(config))
          => (pc'[j] = "s_idmap" /\ config' = config)]_vars

\* C27: at most one listener thread is alive at any time, however calls of
\* admonitor start(), stop() and restart() interleave.
Listeners == {t \in Threads : Alive(t)}
C27_AtMostOneListener == Cardinality(Listeners) <= 1

\* C25: a do_update that is rejected with a validation error has changed
\* nothing: the stored configuration, the status and the NetBIOS settings
\* are what they were when it was called, and no start or stop was
\* submitted.
Rejected == upc = "done" /\ uresult \in {"ValidationError", "ValidationErrors"}
C25_RejectedUpdateChangesNothing ==
    Rejected =>
        /\ config = before.config
        /\ status = before.status
        /\ netbios.netbiosname = before.netbiosname
        /\ netbios.netbiosalias = before.netbiosalias
        /\ queue = before.queue


\* positions of an update past its validation
PastValidation ==
    \/ dpc \in {"d_store", "m_setup", "m_stop", "m_copy", "m_copied",
                 "m_umount_to", "m_mount", "m_destroy", "m_finally",
                 "d_setup", "d_handover"}
    \/ dpc = "done" /\ dresult # "ValidationError"

\* C23 (as stated): an update that asks for another pool while the
\* directory service is HEALTHY or FAULTED never gets past its validation,
\* and ends with a validation error and the stored pool as it was.
C23_RelocationBlocked ==
    moved /\ status \in {"HEALTHY", "FAULTED"} =>
        /\ ~PastValidation
        /\ dpc = "done" => dresult = "ValidationError" /\ _to = dconfig

\* C23 (amended): the same, for an update made while the system is ready.
C23_RelocationBlockedWhenReady ==
    moved /\ system_ready /\ status \in {"HEALTHY", "FAULTED"} =>
        /\ ~PastValidation
        /\ dpc = "done" => dresult = "ValidationError" /\ _to = dconfig

\* a relocation asked for on a ready system with a FAULTED directory
\* service has been refused
C23_Witness ==
    /\ dpc = "done" /\ dresult = "ValidationError"
    /\ moved /\ dnew \in Pools /\ system_ready /\ status = "FAULTED"
    /\ _to = dconfig

\* the migration is between the copy and its return
Migrating == dpc \in {"m_copied", "m_umount_to", "m_mount", "m_destroy", "m_finally"}

\* a pool's dataset leaves the system dataset path
LeavesPath == mounted.sys # "none" /\ mounted'.sys # mounted.sys

\* C28: in a relocation a dataset leaves the system dataset path only after
\* a successful copy with the destination mounted, and a dataset is
\* destroyed only after a successful copy with the destination mounted at
\* the system dataset path; after a failed copy nothing is unmounted or
\* destroyed and the update ends in an error.
C28_SourceKeptUntilMounted ==
    [][/\ LeavesPath => cp = 0 /\ _to \in {mounted.sys, mounted.tmp}
       /\ datasets' # datasets /\ datasets' \subseteq datasets =>
              cp = 0 /\ mounted.sys = _to
       /\ Migrating /\ cp > 0 =>
              /\ UNCHANGED <<mounted, datasets>>
              /\ dpc' = "done" => dresult' = "CallError"]_vars


\* start() restarts the file-sharing service / sets its final status
Restarts(j) == op[j] = "start" /\ pc[j] = "s_restart" /\ pc'[j] = "s_final"
SetsFinal(j) ==
    op[j] = "start" /\ pc[j] = "s_final" /\ pc'[j] \in {"s_monitor", "s_cluster"}
AfterHealthy(j) == op[j] = "start" /\ pc[j] \in {"s_monitor", "s_dscache"}

\* C31 (as stated): start() sets HEALTHY when joined and FAULTED otherwise,
\* has set that status when it restarts the file-sharing service, and
\* starts the monitor and the cache refresh on the HEALTHY path only.
C31_StatusThenRestart ==
    [][\A j \in Jobs :
          /\ SetsFinal(j) =>
                status' = (IF ret[j] = "JOINED" THEN "HEALTHY" ELSE "FAULTED")
          /\ Restarts(j) => status \in {"HEALTHY", "FAULTED"}
          /\ AfterHealthy(j) => ret[j] = "JOINED"]_vars

\* C31 (amended): the same, with the file-sharing service restarted before
\* the final status is set: the restart leaves the status as it is.
C31_RestartThenStatus ==
    [][\A j \in Jobs :
          /\ SetsFinal(j) =>
                status' = (IF ret[j] = "JOINED" THEN "HEALTHY" ELSE "FAULTED")
          /\ Restarts(j) => status' = status /\ pc'[j] = "s_final"
          /\ AfterHealthy(j) => ret[j] = "JOINED"]_vars

\* a start() that found the server joined but unreachable has set FAULTED
\* and goes on without the monitor
C31_Witness ==
    \E j \in Jobs :
        /\ op[j] = "start" /\ pc[j] = "s_cluster"
        /\ ret[j] \notin {"JOINED", "none"} /\ status = "FAULTED"


\* stop() takes a step
StopMoves(j) == op[j] = "stop" /\ Running(j) /\ pc'[j] # pc[j]

\* C32: stop() writes LEAVING first and writes the status again only in
\* its last step, after the monitor is stopped and the ticket cache, the
\* identity cache and the samba cache are torn down, and then DISABLED.
C32_DisabledAfterTeardown ==
    [][\A j \in Jobs : StopMoves(j) =>
          /\ pc[j] = "p_leaving" => status' = "LEAVING"
          /\ pc[j] # "p_leaving" /\ status' # status =>
                pc[j] = "p_final" /\ status' = "DISABLED"]_vars


\* check_clockskew, called by an update that enables the service, has
\* measured a skew of more than 3 minutes
ExcessiveSkew ==
    /\ upc = "u_clockskew" /\ hop = "check_clockskew" /\ hpc = "done"
    /\ ntp_time # 0 /\ Abs(ntp_time - nas_time) > permitted_clockskew

\* C33: an update that enables the service and measures a clock skew of
\* more than 3 minutes fails with the stored configuration (enable false),
\* the status and the job queue as they were when it was called.
C33_SkewGateOnEnable ==
    [][ExcessiveSkew /\ upc' # upc =>
          /\ upc' = "done" /\ uresult' = "ValidationError"
          /\ ~config'.enable /\ config' = before.config
          /\ status' = before.status
          /\ queue' = before.queue]_vars

\* an enabling update has been refused for a skew of 4 minutes
C33_Witness ==
    /\ upc = "done" /\ uresult = "ValidationError"
    /\ hop = "check_clockskew" /\ hresult.kind = "CallError"
    /\ hresult.clockskew >= 240
    /\ ~config.enable /\ queue = <<>>


\* C34: a check_clockskew() that could not locate a domain controller
\* does not return normally: it ends in an error.
C34_UnreachableRaises ==
    hop = "check_clockskew" /\ hpc = "done" /\ hresult.pdc = "None" =>
        hresult.kind = "CallError"


Eligible ==
    {q \in Pools \ {BootPool} : q \notin locked /\ q # pool_exclude}

\* C36: once an update with pool=null has done its part, the configured
\* pool is a data pool that is not excluded, not locked and not
\* passphrase-encrypted, or the boot pool when there is no such pool.
C36_AutoSelectsEligible ==
    /\ dnew = "null"
    /\ dpc = "d_handover" \/ (dpc = "done" /\ dresult = "ok")
    => IF Eligible = {} THEN _to = BootPool ELSE _to \in Eligible


\* no start, stop or leave is in flight or waiting, and every listener has
\* parsed all it was sent
Quiescent ==
    /\ \A j \in Jobs : ~Running(j)
    /\ queue = <<>>
    /\ lpc \in {"idle", "done"}
    /\ \A t \in Threads :
          tpc[t] \notin {"loop", "parse", "decode", "write", "alert"}
    /\ (\E t \in Threads : Alive(t)) => fifo = <<>>

\* C37: at rest, a status of HEALTHY or FAULTED comes with a stored
\* configuration that has enable = true.
C37_HealthyOrFaultedIsEnabled ==
    Quiescent /\ status \in {"HEALTHY", "FAULTED"} => config.enable


\* the step on which a stop() job or a leave() call returns normally
Completes == (\E j \in Jobs : stop_final(j)) \/ leave_cleanup

\* C38: when stop() or leave() completes and the status is DISABLED, no
\* listener thread is alive.
C38_NoListenerAfterDisable ==
    [][Completes /\ status' = "DISABLED" => Listeners' = {}]_vars


\* started() called on a server that is disabled or joined, while start
\* and stop jobs run and the listener parses what winbindd writes.
HealthInit ==
    /\ ServiceInit \/ (Joined /\ NothingRunning /\ OnPool("", {}))
    /\ ha_mode = "STANDALONE" /\ failover = "SINGLE"
    /\ HelperIdle
    /\ tgt = TRUE
    /\ drift = 0

StartedStep ==
    \/ started_call \/ started_enable \/ started_validate
    \/ started_ready \/ started_ping \/ started_cache \/ started_healthy

HealthNext ==
    \/ \E o \in {"start", "stop"} : Submit(o)
    \/ \E j \in Jobs : JobStep(j)
    \/ StartedStep
    \/ \E t \in Threads : ThreadStep(t)
    \/ \E m \in WinbindLines : WinbindWrite(m)

HealthSpec == HealthInit /\ [][HealthNext]_vars

\* a running start() has written JOINING, or a running stop() has written
\* LEAVING, and that is what the store holds
TransitionStatus ==
    \E j \in Jobs :
       \/ /\ op[j] = "start"
          /\ pc[j] \notin {"idle", "done", "s_entry", "s_check", "s_joining"}
          /\ status = "JOINING"
       \/ /\ op[j] = "stop"
          /\ pc[j] \notin {"idle", "done", "p_entry", "p_leaving"}
          /\ status = "LEAVING"

\* C39: no step of started() changes a status of JOINING or LEAVING that a
\* start() or stop() in flight has written.
C39_HealthCheckKeepsTransition ==
    [][StartedStep /\ TransitionStatus => status' = status]_vars

====
